---- MODULE Spec2Model ----
(***************************************************************************)
(* Model of the T.LY API client of src/client.go: the request dispatch of  *)
(* doRequestRaw / doRequest, the JSON encoding of request bodies, the JSON *)
(* decoding of responses (encoding/json as the client uses it), the query  *)
(* encoding of net/url, and every endpoint method built on them.           *)
(*                                                                         *)
(* A Go string or []byte is a tuple of one-character strings.  A call is   *)
(* split at the network: the endpoint action runs the method up to         *)
(* Client.Do, Respond runs it from the response to its return.             *)
(***************************************************************************)
EXTENDS Integers, Sequences, FiniteSets, TLC

\* ------------------------------------------------------------------------
\* Bounds of the model
\* ------------------------------------------------------------------------

\* Longest integer-array filter a caller passes to ListShortLinksDetailed.
MaxIDs == 11

\* ------------------------------------------------------------------------
\* Bytes and strings
\* ------------------------------------------------------------------------

\* The printable ASCII characters in code order: 32 (space) to 95 (_), and
\* 97 (a) to 126 (~).  Code 96 is not used by the client or the model.
Printable == <<" ","!","\"","#","$","%","&","'","(",")","*","+",",","-",".","/","0","1","2","3","4","5","6","7","8","9",":",";","<","=",">","?","@","A","B","C","D","E","F","G","H","I","J","K","L","M","N","O","P","Q","R","S","T","U","V","W","X","Y","Z","[","\\","]","^","_">>

PrintableLow == <<"a","b","c","d","e","f","g","h","i","j","k","l","m","n","o","p","q","r","s","t","u","v","w","x","y","z","{","|","}","~">>

Control == {"\t", "\n", "\f", "\r"}

Chars == {Printable[i] : i \in 1..Len(Printable)}
         \cup {PrintableLow[i] : i \in 1..Len(PrintableLow)} \cup Control

\* The byte value of a character.
CodeOf == [c \in Chars |->
             IF c = "\t" THEN 9
             ELSE IF c = "\n" THEN 10
             ELSE IF c = "\f" THEN 12
             ELSE IF c = "\r" THEN 13
             ELSE IF \E i \in 1..Len(Printable) : Printable[i] = c
                  THEN 31 + (CHOOSE i \in 1..Len(Printable) : Printable[i] = c)
                  ELSE 96 + (CHOOSE i \in 1..Len(PrintableLow) : PrintableLow[i] = c)]

Code(c) == CodeOf[c]

Digits == <<"0","1","2","3","4","5","6","7","8","9">>

UpperHex == <<"0","1","2","3","4","5","6","7","8","9","A","B","C","D","E","F">>

IsDigit(c) == Code(c) >= 48 /\ Code(c) <= 57

IsLetter(c) == \/ (Code(c) >= 65 /\ Code(c) <= 90)
               \/ (Code(c) >= 97 /\ Code(c) <= 122)

\* unicode.ToLower on ASCII, as strings.EqualFold folds the bytes used here.
Lower(c) == IF Code(c) >= 65 /\ Code(c) <= 90 THEN PrintableLow[Code(c) - 64] ELSE c

EqualFold(s, t) == /\ Len(s) = Len(t)
                   /\ \A i \in 1..Len(s) : Lower(s[i]) = Lower(t[i])

\* Byte-wise string order, the order of sort.Strings.
RECURSIVE StrLessAt(_, _, _)
StrLessAt(s, t, i) ==
    IF i > Len(t) THEN FALSE
    ELSE IF i > Len(s) THEN TRUE
    ELSE IF Code(s[i]) < Code(t[i]) THEN TRUE
    ELSE IF Code(s[i]) > Code(t[i]) THEN FALSE
    ELSE StrLessAt(s, t, i + 1)

StrLess(s, t) == StrLessAt(s, t, 1)

RECURSIVE SortStrings(_)
SortStrings(K) ==
    IF K = {} THEN <<>>
    ELSE LET m == CHOOSE k \in K : \A j \in K \ {k} : StrLess(k, j)
         IN  <<m>> \o SortStrings(K \ {m})

RECURSIVE Concat(_)
Concat(ss) == IF ss = <<>> THEN <<>> ELSE Head(ss) \o Concat(Tail(ss))

RECURSIVE Join(_, _)
Join(ss, sep) ==
    IF ss = <<>> THEN <<>>
    ELSE IF Len(ss) = 1 THEN ss[1]
    ELSE ss[1] \o sep \o Join(Tail(ss), sep)

HasPrefix(s, p) == Len(s) >= Len(p) /\ SubSeq(s, 1, Len(p)) = p

\* strconv.Itoa, and the %d verb of fmt.Sprintf.
RECURSIVE UItoa(_)
UItoa(n) == IF n < 10 THEN <<Digits[n + 1]>>
            ELSE UItoa(n \div 10) \o <<Digits[(n % 10) + 1]>>

Itoa(n) == IF n < 0 THEN <<"-">> \o UItoa(-n) ELSE UItoa(n)

\* unicode.IsSpace on the bytes used here.
IsSpace(c) == c \in {"\t", "\n", "\f", "\r", " "}

RECURSIVE TrimLeftSpace(_)
TrimLeftSpace(s) ==
    IF s # <<>> /\ IsSpace(Head(s)) THEN TrimLeftSpace(Tail(s)) ELSE s

RECURSIVE TrimRightSpace(_)
TrimRightSpace(s) ==
    IF s # <<>> /\ IsSpace(s[Len(s)]) THEN TrimRightSpace(SubSeq(s, 1, Len(s) - 1)) ELSE s

\* bytes.TrimSpace
TrimSpace(s) == TrimRightSpace(TrimLeftSpace(s))

\* strings.TrimRight(s, cutset)
RECURSIVE TrimRight(_, _)
TrimRight(s, cutset) ==
    IF s # <<>> /\ s[Len(s)] \in cutset THEN TrimRight(SubSeq(s, 1, Len(s) - 1), cutset) ELSE s

\* ------------------------------------------------------------------------
\* net/url: url.Values, QueryEscape, Values.Encode
\* ------------------------------------------------------------------------

\* url.Values is a map from key to values; the client only ever calls Set, so
\* a key holds one value.  A nil url.Values has no map.
NilQuery == [nil |-> TRUE, m |-> <<>>]

\* url.Values{}
EmptyQuery == [nil |-> FALSE, m |-> <<>>]

QueryKeys(query) == DOMAIN query.m

\* query.Set(key, value)
QuerySet(query, key, value) ==
    [nil |-> FALSE,
     m   |-> [k \in (DOMAIN query.m) \cup {key} |-> IF k = key THEN value ELSE query.m[k]]]

QueryLen(query) == Cardinality(DOMAIN query.m)

\* url.QueryEscape: letters, digits and - _ . ~ are kept, a space becomes +,
\* every other byte becomes %XX in upper-case hex.
ShouldEscape(c) == ~(IsLetter(c) \/ IsDigit(c) \/ c \in {"-", "_", ".", "~"})

EscapeChar(c) ==
    IF c = " " THEN <<"+">>
    ELSE IF ShouldEscape(c)
         THEN <<"%", UpperHex[(Code(c) \div 16) + 1], UpperHex[(Code(c) % 16) + 1]>>
         ELSE <<c>>

RECURSIVE QueryEscape(_)
QueryEscape(s) == IF s = <<>> THEN <<>> ELSE EscapeChar(Head(s)) \o QueryEscape(Tail(s))

\* Values.Encode: the keys sorted with sort.Strings, key=value joined by &.
EncodePair(query, k) == QueryEscape(k) \o <<"=">> \o QueryEscape(query.m[k])

QueryEncode(query) ==
    LET keys == SortStrings(DOMAIN query.m)
    IN  Join([i \in 1..Len(keys) |-> EncodePair(query, keys[i])], <<"&">>)

\* addIndexedIntSlice(query, key, values): key[i] = Itoa(values[i]).
RECURSIVE addIndexedIntSliceFrom(_, _, _, _)
addIndexedIntSliceFrom(query, key, values, i) ==
    IF i > Len(values) THEN query
    ELSE addIndexedIntSliceFrom(
             QuerySet(query, key \o <<"[">> \o Itoa(i - 1) \o <<"]">>, Itoa(values[i])),
             key, values, i + 1)

addIndexedIntSlice(query, key, values) == addIndexedIntSliceFrom(query, key, values, 1)

\* queryFromMap(params): every entry of the map is Set, whatever its value.
RECURSIVE queryFromMapOver(_, _, _)
queryFromMapOver(query, params, keys) ==
    IF keys = {} THEN query
    ELSE LET k == CHOOSE x \in keys : TRUE
         IN  queryFromMapOver(QuerySet(query, k, params[k]), params, keys \ {k})

queryFromMap(params) == queryFromMapOver(EmptyQuery, params, DOMAIN params)

\* ------------------------------------------------------------------------
\* Go types and values
\* ------------------------------------------------------------------------

\* A type is a record with its kind k.  An int is an integer, a string a
\* tuple of characters, a bool a boolean; a pointer, slice, map or interface
\* is Nil or a record holding its contents; a struct is a function from its
\* Go field names to their values.
TInt == [k |-> "int"]
TString == [k |-> "string"]
TBool == [k |-> "bool"]
\* interface{}
TAny == [k |-> "any"]
\* map[string]interface{}
TMap == [k |-> "map"]
\* map[string]string
TMapSS == [k |-> "mapss"]
\* the dynamic type of an interface{} that json.Unmarshal filled
TJSON == [k |-> "json"]
\* a dynamic type encoding/json cannot encode (a channel, a func)
TChan == [k |-> "chan"]
\* []byte: Nil or Slice of characters
TBytes == [k |-> "bytes"]
TPtr(T) == [k |-> "ptr", e |-> T]
TSlice(T) == [k |-> "slice", e |-> T]
TStruct(fields) == [k |-> "struct", f |-> fields]

\* A struct field: its Go name, its json key, whether the tag says omitempty.
Field(name, key, T) == [name |-> name, key |-> key, omitempty |-> FALSE, t |-> T]
FieldOmitEmpty(name, key, T) == [name |-> name, key |-> key, omitempty |-> TRUE, t |-> T]

Nil == [nil |-> TRUE]
Ptr(v) == [nil |-> FALSE, v |-> v]
Slice(vs) == [nil |-> FALSE, v |-> vs]
Iface(T, v) == [nil |-> FALSE, t |-> T, v |-> v]

FieldNames(T) == {T.f[i].name : i \in 1..Len(T.f)}

FieldOf(T, name) == T.f[CHOOSE i \in 1..Len(T.f) : T.f[i].name = name]

\* The zero value of a type (var x T).
RECURSIVE Zero(_)
Zero(T) ==
    CASE T.k = "int" -> 0
      [] T.k = "string" -> <<>>
      [] T.k = "bool" -> FALSE
      [] T.k \in {"any", "map", "mapss", "ptr", "slice", "bytes"} -> Nil
      [] T.k = "struct" -> [n \in FieldNames(T) |-> Zero(FieldOf(T, n).t)]

\* ------------------------------------------------------------------------
\* encoding/json: Marshal
\* ------------------------------------------------------------------------

\* isEmptyValue of encoding/json, which decides omitempty.
IsEmptyValue(v, T) ==
    CASE T.k = "int" -> v = 0
      [] T.k = "string" -> Len(v) = 0
      [] T.k = "bool" -> ~v
      [] T.k \in {"any", "ptr"} -> v.nil
      [] T.k \in {"slice"} -> v.nil \/ Len(v.v) = 0
      [] T.k = "mapss" -> v.nil \/ DOMAIN v.v = {}
      [] T.k = "struct" -> FALSE

\* The encoding of one character of a string (Marshal escapes HTML too).
EncodeChar(c) ==
    CASE c = "\"" -> <<"\\","\"">>
      [] c = "\\" -> <<"\\","\\">>
      [] c = "\n" -> <<"\\","n">>
      [] c = "\r" -> <<"\\","r">>
      [] c = "\t" -> <<"\\","t">>
      [] c = "\f" -> <<"\\","u","0","0","0","c">>
      [] c = "<" -> <<"\\","u","0","0","3","c">>
      [] c = ">" -> <<"\\","u","0","0","3","e">>
      [] c = "&" -> <<"\\","u","0","0","2","6">>
      [] OTHER -> <<c>>

RECURSIVE EncodeChars(_)
EncodeChars(s) == IF s = <<>> THEN <<>> ELSE EncodeChar(Head(s)) \o EncodeChars(Tail(s))

MarshalString(s) == <<"\"">> \o EncodeChars(s) \o <<"\"">>

MarshalFailed == [ok |-> FALSE, s |-> <<>>]

RECURSIVE Marshal(_, _)
RECURSIVE MarshalElems(_, _, _)
RECURSIVE MarshalFields(_, _, _)
RECURSIVE MarshalEntries(_, _, _)

\* json.Marshal(v) for v of type T: [ok, s].
Marshal(v, T) ==
    CASE T.k = "int" -> [ok |-> TRUE, s |-> Itoa(v)]
      [] T.k = "string" -> [ok |-> TRUE, s |-> MarshalString(v)]
      [] T.k = "bool" -> [ok |-> TRUE, s |-> IF v THEN <<"t","r","u","e">> ELSE <<"f","a","l","s","e">>]
      [] T.k = "chan" -> MarshalFailed
      [] T.k = "any" -> IF v.nil THEN [ok |-> TRUE, s |-> <<"n","u","l","l">>] ELSE Marshal(v.v, v.t)
      [] T.k = "ptr" -> IF v.nil THEN [ok |-> TRUE, s |-> <<"n","u","l","l">>] ELSE Marshal(v.v, T.e)
      [] T.k = "slice" ->
            IF v.nil THEN [ok |-> TRUE, s |-> <<"n","u","l","l">>]
            ELSE LET r == MarshalElems(v.v, T.e, 1)
                 IN  IF r.ok THEN [ok |-> TRUE, s |-> <<"[">> \o Join(r.parts, <<",">>) \o <<"]">>]
                     ELSE MarshalFailed
      [] T.k = "mapss" ->
            IF v.nil THEN [ok |-> TRUE, s |-> <<"n","u","l","l">>]
            ELSE [ok |-> TRUE,
                  s  |-> <<"{">> \o Join(MarshalEntries(v.v, SortStrings(DOMAIN v.v), 1), <<",">>) \o <<"}">>]
      [] T.k = "struct" ->
            LET r == MarshalFields(v, T.f, 1)
            IN  IF r.ok THEN [ok |-> TRUE, s |-> <<"{">> \o Join(r.parts, <<",">>) \o <<"}">>]
                ELSE MarshalFailed

MarshalElems(vs, T, i) ==
    IF i > Len(vs) THEN [ok |-> TRUE, parts |-> <<>>]
    ELSE LET h == Marshal(vs[i], T)
             r == MarshalElems(vs, T, i + 1)
         IN  IF h.ok /\ r.ok THEN [ok |-> TRUE, parts |-> <<h.s>> \o r.parts]
             ELSE [ok |-> FALSE, parts |-> <<>>]

\* The fields in declaration order; an omitempty field with an empty value
\* is left out.
MarshalFields(v, fields, i) ==
    IF i > Len(fields) THEN [ok |-> TRUE, parts |-> <<>>]
    ELSE LET f == fields[i]
             r == MarshalFields(v, fields, i + 1)
         IN  IF f.omitempty /\ IsEmptyValue(v[f.name], f.t) THEN r
             ELSE LET h == Marshal(v[f.name], f.t)
                  IN  IF h.ok /\ r.ok
                      THEN [ok |-> TRUE,
                            parts |-> <<MarshalString(f.key) \o <<":">> \o h.s>> \o r.parts]
                      ELSE [ok |-> FALSE, parts |-> <<>>]

\* The entries of a map[string]string, in sorted key order.
MarshalEntries(m, keys, i) ==
    IF i > Len(keys) THEN <<>>
    ELSE <<MarshalString(keys[i]) \o <<":">> \o MarshalString(m[keys[i]])>>
         \o MarshalEntries(m, keys, i + 1)

\* ------------------------------------------------------------------------
\* encoding/json: the syntax of a document
\* ------------------------------------------------------------------------

\* A parsed document: null, a bool, a number (integers only: the bodies of
\* the model hold no fraction or exponent), a string (no escapes: the bodies
\* hold no backslash), an array, or an object with its members in order.
JNull == [t |-> "null"]
JBool(b) == [t |-> "bool", b |-> b]
JNum(n) == [t |-> "num", n |-> n]
JStr(s) == [t |-> "str", s |-> s]
JArr(a) == [t |-> "arr", a |-> a]
JObj(m) == [t |-> "obj", m |-> m]

ParseFailed == [ok |-> FALSE, v |-> JNull, i |-> 0]

\* JSON white space is space, \t, \r and \n only.
IsJSONSpace(c) == c \in {" ", "\t", "\r", "\n"}

RECURSIVE SkipWS(_, _)
SkipWS(s, i) == IF i <= Len(s) /\ IsJSONSpace(s[i]) THEN SkipWS(s, i + 1) ELSE i

\* The index of the quote closing the string whose characters start at i,
\* 0 if there is none or a character is not allowed in a string.
RECURSIVE ScanString(_, _)
ScanString(s, i) ==
    IF i > Len(s) THEN 0
    ELSE IF s[i] = "\"" THEN i
    ELSE IF Code(s[i]) < 32 \/ s[i] = "\\" THEN 0
    ELSE ScanString(s, i + 1)

\* The index after the last digit of the run of digits starting at i.
RECURSIVE ScanDigits(_, _)
ScanDigits(s, i) == IF i <= Len(s) /\ IsDigit(s[i]) THEN ScanDigits(s, i + 1) ELSE i

RECURSIVE DigitsValue(_, _, _)
DigitsValue(s, i, j) ==
    IF j < i THEN 0 ELSE 10 * DigitsValue(s, i, j - 1) + (Code(s[j]) - 48)

HasAt(s, i, w) == i + Len(w) - 1 <= Len(s) /\ SubSeq(s, i, i + Len(w) - 1) = w

RECURSIVE ParseValue(_, _)
RECURSIVE ParseElems(_, _, _)
RECURSIVE ParseMembers(_, _, _)

ParseNumber(s, i) ==
    LET d == IF s[i] = "-" THEN i + 1 ELSE i
        e == ScanDigits(s, d)
    IN  IF e = d THEN ParseFailed
        ELSE IF s[d] = "0" /\ e > d + 1 THEN ParseFailed
        ELSE [ok |-> TRUE,
              v  |-> JNum(IF d > i THEN -DigitsValue(s, d, e - 1) ELSE DigitsValue(s, d, e - 1)),
              i  |-> e]

ParseString(s, i) ==
    LET q == ScanString(s, i + 1)
    IN  IF q = 0 THEN ParseFailed
        ELSE [ok |-> TRUE, v |-> JStr(SubSeq(s, i + 1, q - 1)), i |-> q + 1]

\* The value starting at or after i: [ok, v, i], i the index after it.
ParseValue(s, i0) ==
    LET i == SkipWS(s, i0)
    IN  IF i > Len(s) THEN ParseFailed
        ELSE IF s[i] = "{" THEN
                 LET j == SkipWS(s, i + 1)
                 IN  IF j <= Len(s) /\ s[j] = "}"
                     THEN [ok |-> TRUE, v |-> JObj(<<>>), i |-> j + 1]
                     ELSE ParseMembers(s, j, <<>>)
        ELSE IF s[i] = "[" THEN
                 LET j == SkipWS(s, i + 1)
                 IN  IF j <= Len(s) /\ s[j] = "]"
                     THEN [ok |-> TRUE, v |-> JArr(<<>>), i |-> j + 1]
                     ELSE ParseElems(s, j, <<>>)
        ELSE IF s[i] = "\"" THEN ParseString(s, i)
        ELSE IF s[i] = "-" \/ IsDigit(s[i]) THEN ParseNumber(s, i)
        ELSE IF HasAt(s, i, <<"t","r","u","e">>) THEN [ok |-> TRUE, v |-> JBool(TRUE), i |-> i + 4]
        ELSE IF HasAt(s, i, <<"f","a","l","s","e">>) THEN [ok |-> TRUE, v |-> JBool(FALSE), i |-> i + 5]
        ELSE IF HasAt(s, i, <<"n","u","l","l">>) THEN [ok |-> TRUE, v |-> JNull, i |-> i + 4]
        ELSE ParseFailed

\* The elements of an array from i on, acc the elements read so far.
ParseElems(s, i, acc) ==
    LET r == ParseValue(s, i)
    IN  IF ~r.ok THEN ParseFailed
        ELSE LET j == SkipWS(s, r.i)
             IN  IF j > Len(s) THEN ParseFailed
                 ELSE IF s[j] = "]" THEN [ok |-> TRUE, v |-> JArr(Append(acc, r.v)), i |-> j + 1]
                 ELSE IF s[j] = "," THEN ParseElems(s, j + 1, Append(acc, r.v))
                 ELSE ParseFailed

\* The members of an object from i on (i at the key's quote).
ParseMembers(s, i, acc) ==
    IF i > Len(s) \/ s[i] # "\"" THEN ParseFailed
    ELSE LET k == ParseString(s, i)
         IN  IF ~k.ok THEN ParseFailed
             ELSE LET c == SkipWS(s, k.i)
                  IN  IF c > Len(s) \/ s[c] # ":" THEN ParseFailed
                      ELSE LET r == ParseValue(s, c + 1)
                           IN  IF ~r.ok THEN ParseFailed
                               ELSE LET j == SkipWS(s, r.i)
                                        m == Append(acc, [k |-> k.v.s, v |-> r.v])
                                    IN  IF j > Len(s) THEN ParseFailed
                                        ELSE IF s[j] = "}"
                                             THEN [ok |-> TRUE, v |-> JObj(m), i |-> j + 1]
                                        ELSE IF s[j] = ","
                                             THEN ParseMembers(s, SkipWS(s, j + 1), m)
                                        ELSE ParseFailed

\* The value r read from s is a document if only white space follows it.
WholeDocument(s, r) ==
    IF r.ok /\ SkipWS(s, r.i) > Len(s) THEN [ok |-> TRUE, v |-> r.v]
    ELSE [ok |-> FALSE, v |-> JNull]

\* checkValid and the scan of json.Unmarshal: one value, white space around it.
ParseJSON(s) == WholeDocument(s, ParseValue(s, 1))

\* ------------------------------------------------------------------------
\* encoding/json: Unmarshal
\* ------------------------------------------------------------------------

\* The field a key names: the one whose json key is the key, else the first
\* whose key equals it under case folding; 0 when the struct has none (the
\* member is then skipped: unknown keys are no error).
FindField(fields, key) ==
    IF \E i \in 1..Len(fields) : fields[i].key = key
    THEN CHOOSE i \in 1..Len(fields) : fields[i].key = key
    ELSE IF \E i \in 1..Len(fields) : EqualFold(fields[i].key, key)
    THEN CHOOSE i \in 1..Len(fields) :
             /\ EqualFold(fields[i].key, key)
             /\ \A j \in 1..(i - 1) : ~EqualFold(fields[j].key, key)
    ELSE 0

RECURSIVE Decode(_, _, _)
RECURSIVE DecodeElems(_, _, _)
RECURSIVE DecodeMembers(_, _, _, _)

\* The decoding of a parsed value into cur of type T: [err, v].  A value of
\* the wrong kind is an UnmarshalTypeError: it is recorded, the target keeps
\* what it held, and decoding goes on with the rest of the document.
Decode(j, T, cur) ==
    CASE T.k = "int" ->
            IF j.t = "null" THEN [err |-> FALSE, v |-> cur]
            ELSE IF j.t = "num" THEN [err |-> FALSE, v |-> j.n]
            ELSE [err |-> TRUE, v |-> cur]
      [] T.k = "string" ->
            IF j.t = "null" THEN [err |-> FALSE, v |-> cur]
            ELSE IF j.t = "str" THEN [err |-> FALSE, v |-> j.s]
            ELSE [err |-> TRUE, v |-> cur]
      [] T.k = "bool" ->
            IF j.t = "null" THEN [err |-> FALSE, v |-> cur]
            ELSE IF j.t = "bool" THEN [err |-> FALSE, v |-> j.b]
            ELSE [err |-> TRUE, v |-> cur]
      [] T.k = "any" ->
            IF j.t = "null" THEN [err |-> FALSE, v |-> Nil]
            ELSE [err |-> FALSE, v |-> Iface(TJSON, j)]
      [] T.k = "map" ->
            IF j.t = "null" THEN [err |-> FALSE, v |-> Nil]
            ELSE IF j.t = "obj" THEN [err |-> FALSE, v |-> Iface(TJSON, j)]
            ELSE [err |-> TRUE, v |-> cur]
      [] T.k = "ptr" ->
            IF j.t = "null" THEN [err |-> FALSE, v |-> Nil]
            ELSE LET r == Decode(j, T.e, IF cur.nil THEN Zero(T.e) ELSE cur.v)
                 IN  [err |-> r.err, v |-> Ptr(r.v)]
      [] T.k = "slice" ->
            IF j.t = "null" THEN [err |-> FALSE, v |-> Nil]
            ELSE IF j.t = "arr" THEN
                 LET r == DecodeElems(j.a, T.e, 1)
                 IN  [err |-> r.err, v |-> Slice(r.v)]
            ELSE [err |-> TRUE, v |-> cur]
      [] T.k = "struct" ->
            IF j.t = "null" THEN [err |-> FALSE, v |-> cur]
            ELSE IF j.t = "obj" THEN DecodeMembers(j.m, T, cur, 1)
            ELSE [err |-> TRUE, v |-> cur]

\* The elements of an array, each into a fresh element of the slice.
DecodeElems(a, T, i) ==
    IF i > Len(a) THEN [err |-> FALSE, v |-> <<>>]
    ELSE LET h == Decode(a[i], T, Zero(T))
             r == DecodeElems(a, T, i + 1)
         IN  [err |-> h.err \/ r.err, v |-> <<h.v>> \o r.v]

\* The members of an object in order, each into the field its key names.
DecodeMembers(m, T, cur, i) ==
    IF i > Len(m) THEN [err |-> FALSE, v |-> cur]
    ELSE LET fi == FindField(T.f, m[i].k)
         IN  IF fi = 0 THEN DecodeMembers(m, T, cur, i + 1)
             ELSE LET f == T.f[fi]
                      h == Decode(m[i].v, f.t, cur[f.name])
                      r == DecodeMembers(m, T, [cur EXCEPT ![f.name] = h.v], i + 1)
                  IN  [err |-> h.err \/ r.err, v |-> r.v]

\* The decoding of the parse p of a document into cur.
DecodeDocument(p, T, cur) == IF ~p.ok THEN [err |-> TRUE, v |-> cur] ELSE Decode(p.v, T, cur)

\* json.Unmarshal(data, &cur) for cur of type T: [err, v].  A document that
\* is not valid JSON is an error before anything is decoded.
Unmarshal(data, T, cur) == DecodeDocument(ParseJSON(data), T, cur)

\* ------------------------------------------------------------------------
\* The data types of the client (with their json tags)
\* ------------------------------------------------------------------------

Pixel ==
    TStruct(<<Field("ID", <<"i","d">>, TInt),
              Field("Name", <<"n","a","m","e">>, TString),
              Field("PixelID", <<"p","i","x","e","l","_","i","d">>, TString),
              Field("PixelType", <<"p","i","x","e","l","_","t","y","p","e">>, TString),
              Field("CreatedAt", <<"c","r","e","a","t","e","d","_","a","t">>, TString),
              Field("UpdatedAt", <<"u","p","d","a","t","e","d","_","a","t">>, TString)>>)

PixelCreateRequest ==
    TStruct(<<Field("Name", <<"n","a","m","e">>, TString),
              Field("PixelID", <<"p","i","x","e","l","_","i","d">>, TString),
              Field("PixelType", <<"p","i","x","e","l","_","t","y","p","e">>, TString)>>)

PixelUpdateRequest ==
    TStruct(<<Field("ID", <<"i","d">>, TInt),
              Field("Name", <<"n","a","m","e">>, TString),
              Field("PixelID", <<"p","i","x","e","l","_","i","d">>, TString),
              Field("PixelType", <<"p","i","x","e","l","_","t","y","p","e">>, TString)>>)

ShortLink ==
    TStruct(<<Field("ShortURL", <<"s","h","o","r","t","_","u","r","l">>, TString),
              Field("Description", <<"d","e","s","c","r","i","p","t","i","o","n">>, TPtr(TString)),
              Field("LongURL", <<"l","o","n","g","_","u","r","l">>, TString),
              Field("Domain", <<"d","o","m","a","i","n">>, TString),
              Field("ShortID", <<"s","h","o","r","t","_","i","d">>, TString),
              Field("ExpireAtViews", <<"e","x","p","i","r","e","_","a","t","_","v","i","e","w","s">>, TAny),
              Field("ExpireAtDatetime", <<"e","x","p","i","r","e","_","a","t","_","d","a","t","e","t","i","m","e">>, TAny),
              Field("PublicStats", <<"p","u","b","l","i","c","_","s","t","a","t","s">>, TBool),
              Field("CreatedAt", <<"c","r","e","a","t","e","d","_","a","t">>, TString),
              Field("UpdatedAt", <<"u","p","d","a","t","e","d","_","a","t">>, TString),
              Field("Meta", <<"m","e","t","a">>, TAny),
              FieldOmitEmpty("QRCodeURL", <<"q","r","_","c","o","d","e","_","u","r","l">>, TString),
              FieldOmitEmpty("QRCodeBase64", <<"q","r","_","c","o","d","e","_","b","a","s","e","6","4">>, TString),
              FieldOmitEmpty("Tags", <<"t","a","g","s">>, TSlice(TAny)),
              FieldOmitEmpty("Pixels", <<"p","i","x","e","l","s">>, TSlice(TAny))>>)

ShortLinkCreateRequest ==
    TStruct(<<Field("LongURL", <<"l","o","n","g","_","u","r","l">>, TString),
              FieldOmitEmpty("ShortID", <<"s","h","o","r","t","_","i","d">>, TPtr(TString)),
              Field("Domain", <<"d","o","m","a","i","n">>, TString),
              FieldOmitEmpty("ExpireAtDatetime", <<"e","x","p","i","r","e","_","a","t","_","d","a","t","e","t","i","m","e">>, TPtr(TString)),
              FieldOmitEmpty("ExpireAtViews", <<"e","x","p","i","r","e","_","a","t","_","v","i","e","w","s">>, TPtr(TInt)),
              FieldOmitEmpty("Description", <<"d","e","s","c","r","i","p","t","i","o","n">>, TPtr(TString)),
              FieldOmitEmpty("PublicStats", <<"p","u","b","l","i","c","_","s","t","a","t","s">>, TPtr(TBool)),
              FieldOmitEmpty("Password", <<"p","a","s","s","w","o","r","d">>, TPtr(TString)),
              FieldOmitEmpty("Tags", <<"t","a","g","s">>, TSlice(TInt)),
              FieldOmitEmpty("Pixels", <<"p","i","x","e","l","s">>, TSlice(TInt)),
              FieldOmitEmpty("Meta", <<"m","e","t","a">>, TAny)>>)

ShortLinkUpdateRequest ==
    TStruct(<<Field("ShortURL", <<"s","h","o","r","t","_","u","r","l">>, TString),
              FieldOmitEmpty("ShortID", <<"s","h","o","r","t","_","i","d">>, TPtr(TString)),
              Field("LongURL", <<"l","o","n","g","_","u","r","l">>, TString),
              FieldOmitEmpty("ExpireAtDatetime", <<"e","x","p","i","r","e","_","a","t","_","d","a","t","e","t","i","m","e">>, TPtr(TString)),
              FieldOmitEmpty("ExpireAtViews", <<"e","x","p","i","r","e","_","a","t","_","v","i","e","w","s">>, TPtr(TInt)),
              FieldOmitEmpty("Description", <<"d","e","s","c","r","i","p","t","i","o","n">>, TPtr(TString)),
              FieldOmitEmpty("PublicStats", <<"p","u","b","l","i","c","_","s","t","a","t","s">>, TPtr(TBool)),
              FieldOmitEmpty("Password", <<"p","a","s","s","w","o","r","d">>, TPtr(TString)),
              FieldOmitEmpty("Tags", <<"t","a","g","s">>, TSlice(TInt)),
              FieldOmitEmpty("Pixels", <<"p","i","x","e","l","s">>, TSlice(TInt)),
              FieldOmitEmpty("Meta", <<"m","e","t","a">>, TAny)>>)

ExpandRequest ==
    TStruct(<<Field("ShortURL", <<"s","h","o","r","t","_","u","r","l">>, TString),
              FieldOmitEmpty("Password", <<"p","a","s","s","w","o","r","d">>, TPtr(TString))>>)

ExpandResponse ==
    TStruct(<<Field("LongURL", <<"l","o","n","g","_","u","r","l">>, TString),
              Field("Expired", <<"e","x","p","i","r","e","d">>, TBool)>>)

ShortLinkListResponse ==
    TStruct(<<Field("CurrentPage", <<"c","u","r","r","e","n","t","_","p","a","g","e">>, TInt),
              Field("Data", <<"d","a","t","a">>, TSlice(ShortLink)),
              FieldOmitEmpty("LastPage", <<"l","a","s","t","_","p","a","g","e">>, TInt),
              FieldOmitEmpty("PerPage", <<"p","e","r","_","p","a","g","e">>, TInt),
              FieldOmitEmpty("Total", <<"t","o","t","a","l">>, TInt)>>)

BulkShortenLink ==
    TStruct(<<Field("LongURL", <<"l","o","n","g","_","u","r","l">>, TString),
              FieldOmitEmpty("Backhalf", <<"b","a","c","k","h","a","l","f">>, TPtr(TString)),
              FieldOmitEmpty("Password", <<"p","a","s","s","w","o","r","d">>, TPtr(TString)),
              FieldOmitEmpty("Description", <<"d","e","s","c","r","i","p","t","i","o","n">>, TPtr(TString))>>)

BulkShortenRequest ==
    TStruct(<<Field("Domain", <<"d","o","m","a","i","n">>, TString),
              Field("Links", <<"l","i","n","k","s">>, TAny),
              FieldOmitEmpty("Tags", <<"t","a","g","s">>, TSlice(TInt)),
              FieldOmitEmpty("Pixels", <<"p","i","x","e","l","s">>, TSlice(TInt))>>)

BulkUpdateLink ==
    TStruct(<<Field("ShortURL", <<"s","h","o","r","t","_","u","r","l">>, TString),
              FieldOmitEmpty("LongURL", <<"l","o","n","g","_","u","r","l">>, TString),
              FieldOmitEmpty("Backhalf", <<"b","a","c","k","h","a","l","f">>, TPtr(TString)),
              FieldOmitEmpty("Password", <<"p","a","s","s","w","o","r","d">>, TPtr(TString)),
              FieldOmitEmpty("Description", <<"d","e","s","c","r","i","p","t","i","o","n">>, TPtr(TString))>>)

BulkUpdateRequest ==
    TStruct(<<Field("Links", <<"l","i","n","k","s">>, TAny),
              FieldOmitEmpty("Tags", <<"t","a","g","s">>, TSlice(TInt)),
              FieldOmitEmpty("Pixels", <<"p","i","x","e","l","s">>, TSlice(TInt))>>)

Stats ==
    TStruct(<<Field("Clicks", <<"c","l","i","c","k","s">>, TInt),
              Field("UniqueClicks", <<"u","n","i","q","u","e","_","c","l","i","c","k","s">>, TInt),
              FieldOmitEmpty("TotalQRScans", <<"t","o","t","a","l","_","q","r","_","s","c","a","n","s">>, TInt),
              Field("Browsers", <<"b","r","o","w","s","e","r","s">>, TSlice(TMap)),
              Field("Countries", <<"c","o","u","n","t","r","i","e","s">>, TSlice(TMap)),
              FieldOmitEmpty("Cities", <<"c","i","t","i","e","s">>, TSlice(TMap)),
              Field("Referrers", <<"r","e","f","e","r","r","e","r","s">>, TSlice(TMap)),
              Field("Platforms", <<"p","l","a","t","f","o","r","m","s">>, TSlice(TMap)),
              Field("DailyClicks", <<"d","a","i","l","y","_","c","l","i","c","k","s">>, TSlice(TMap)),
              FieldOmitEmpty("LinkClicks", <<"l","i","n","k","_","c","l","i","c","k","s">>, TSlice(TMap)),
              Field("Data", <<"d","a","t","a">>, TMap)>>)

OneLinkStats ==
    TStruct(<<Field("Clicks", <<"c","l","i","c","k","s">>, TInt),
              Field("UniqueClicks", <<"u","n","i","q","u","e","_","c","l","i","c","k","s">>, TInt),
              Field("TotalQRScans", <<"t","o","t","a","l","_","q","r","_","s","c","a","n","s">>, TInt),
              Field("Browsers", <<"b","r","o","w","s","e","r","s">>, TSlice(TMap)),
              Field("Countries", <<"c","o","u","n","t","r","i","e","s">>, TSlice(TMap)),
              Field("Cities", <<"c","i","t","i","e","s">>, TSlice(TMap)),
              Field("Referrers", <<"r","e","f","e","r","r","e","r","s">>, TSlice(TMap)),
              Field("Platforms", <<"p","l","a","t","f","o","r","m","s">>, TSlice(TMap)),
              Field("DailyClicks", <<"d","a","i","l","y","_","c","l","i","c","k","s">>, TSlice(TMap)),
              Field("LinkClicks", <<"l","i","n","k","_","c","l","i","c","k","s">>, TSlice(TMap)),
              Field("Data", <<"d","a","t","a">>, TMap)>>)

OneLink ==
    TStruct(<<Field("ID", <<"i","d">>, TInt),
              Field("ShortID", <<"s","h","o","r","t","_","i","d">>, TString),
              Field("ShortURL", <<"s","h","o","r","t","_","u","r","l">>, TString),
              Field("Domain", <<"d","o","m","a","i","n">>, TString),
              Field("Title", <<"t","i","t","l","e">>, TString),
              Field("Description", <<"d","e","s","c","r","i","p","t","i","o","n">>, TString),
              Field("AvatarURL", <<"a","v","a","t","a","r","_","u","r","l">>, TString),
              Field("Meta", <<"m","e","t","a">>, TAny),
              Field("CreatedAt", <<"c","r","e","a","t","e","d","_","a","t">>, TString),
              Field("UpdatedAt", <<"u","p","d","a","t","e","d","_","a","t">>, TString),
              FieldOmitEmpty("LastClicked", <<"l","a","s","t","_","c","l","i","c","k","e","d">>, TString)>>)

OneLinkListResponse ==
    TStruct(<<Field("CurrentPage", <<"c","u","r","r","e","n","t","_","p","a","g","e">>, TInt),
              Field("Data", <<"d","a","t","a">>, TSlice(OneLink)),
              FieldOmitEmpty("LastPage", <<"l","a","s","t","_","p","a","g","e">>, TInt),
              FieldOmitEmpty("PerPage", <<"p","e","r","_","p","a","g","e">>, TInt),
              FieldOmitEmpty("Total", <<"t","o","t","a","l">>, TInt)>>)

UTMPreset ==
    TStruct(<<Field("ID", <<"i","d">>, TInt),
              Field("Name", <<"n","a","m","e">>, TString),
              Field("Source", <<"s","o","u","r","c","e">>, TString),
              Field("Medium", <<"m","e","d","i","u","m">>, TString),
              Field("Campaign", <<"c","a","m","p","a","i","g","n">>, TString),
              Field("Content", <<"c","o","n","t","e","n","t">>, TString),
              Field("Term", <<"t","e","r","m">>, TString),
              Field("CreatedAt", <<"c","r","e","a","t","e","d","_","a","t">>, TString),
              Field("UpdatedAt", <<"u","p","d","a","t","e","d","_","a","t">>, TString)>>)

UTMPresetRequest ==
    TStruct(<<Field("Name", <<"n","a","m","e">>, TString),
              Field("Source", <<"s","o","u","r","c","e">>, TString),
              Field("Medium", <<"m","e","d","i","u","m">>, TString),
              Field("Campaign", <<"c","a","m","p","a","i","g","n">>, TString),
              Field("Content", <<"c","o","n","t","e","n","t">>, TString),
              Field("Term", <<"t","e","r","m">>, TString)>>)

\* var wrapped struct { Data UTMPreset `json:"data"` } of decodeUTMPreset
WrappedUTMPreset == TStruct(<<Field("Data", <<"d","a","t","a">>, UTMPreset)>>)

\* var wrapped struct { Data []UTMPreset `json:"data"` } of ListUTMPresets
WrappedUTMPresetList == TStruct(<<Field("Data", <<"d","a","t","a">>, TSlice(UTMPreset))>>)

QRCodeUpdateRequest ==
    TStruct(<<Field("ShortURL", <<"s","h","o","r","t","_","u","r","l">>, TString),
              FieldOmitEmpty("Image", <<"i","m","a","g","e">>, TPtr(TString)),
              FieldOmitEmpty("BackgroundColor", <<"b","a","c","k","g","r","o","u","n","d","_","c","o","l","o","r">>, TPtr(TString)),
              FieldOmitEmpty("CornerDotsColor", <<"c","o","r","n","e","r","_","d","o","t","s","_","c","o","l","o","r">>, TPtr(TString)),
              FieldOmitEmpty("DotsColor", <<"d","o","t","s","_","c","o","l","o","r">>, TPtr(TString)),
              FieldOmitEmpty("DotsStyle", <<"d","o","t","s","_","s","t","y","l","e">>, TPtr(TString)),
              FieldOmitEmpty("CornerStyle", <<"c","o","r","n","e","r","_","s","t","y","l","e">>, TPtr(TString))>>)

QRCode ==
    TStruct(<<Field("ID", <<"i","d">>, TInt),
              Field("ShortURL", <<"s","h","o","r","t","_","u","r","l">>, TString),
              Field("QRCodeOptions", <<"q","r","_","c","o","d","e","_","o","p","t","i","o","n","s">>, TMap),
              Field("TeamID", <<"t","e","a","m","_","i","d">>, TInt),
              Field("UserID", <<"u","s","e","r","_","i","d">>, TInt),
              Field("UpdatedAt", <<"u","p","d","a","t","e","d","_","a","t">>, TString)>>)

Tag ==
    TStruct(<<Field("ID", <<"i","d">>, TInt),
              Field("Tag", <<"t","a","g">>, TString),
              Field("CreatedAt", <<"c","r","e","a","t","e","d","_","a","t">>, TString),
              Field("UpdatedAt", <<"u","p","d","a","t","e","d","_","a","t">>, TString)>>)

\* ------------------------------------------------------------------------
\* Errors
\* ------------------------------------------------------------------------

\* A nil error.
NoErr == [kind |-> "nil"]

\* &APIError{StatusCode: ..., Body: ...}
APIError(status, body) == [kind |-> "APIError", StatusCode |-> status, Body |-> body]

\* The error of json.Marshal, of http.NewRequest, of Client.Do, of
\* ioutil.ReadAll and of json.Unmarshal, each returned as it is.
MarshalError == [kind |-> "json.Marshal"]
NewRequestError == [kind |-> "http.NewRequest"]
TransportError == [kind |-> "Client.Do"]
ReadError == [kind |-> "ioutil.ReadAll"]
UnmarshalError == [kind |-> "json.Unmarshal"]

\* fmt.Errorf(msg)
Errorf(msg) == [kind |-> "fmt.Errorf", msg |-> msg]

IsNil(err) == err.kind = "nil"

\* ------------------------------------------------------------------------
\* The client and the dispatch layer
\* ------------------------------------------------------------------------

DefaultBaseURL == <<"h","t","t","p","s",":","/","/","a","p","i",".","t",".","l","y">>

\* NewClient(apiKey)
NewClient(apiKey) == [APIKey |-> apiKey, BaseURL |-> DefaultBaseURL, Client |-> "http.Client"]

MethodGet == "GET"
MethodPost == "POST"
MethodPut == "PUT"
MethodDelete == "DELETE"

NoRequest == [Method |-> "none"]

\* requestURL of doRequestRaw: the base without trailing slashes, the path,
\* and the encoded query when there is one.
RequestURL(c, path, query) ==
    LET requestURL == TrimRight(c.BaseURL, {"/"}) \o path
    IN  IF ~query.nil /\ QueryLen(query) > 0
        THEN requestURL \o <<"?">> \o QueryEncode(query)
        ELSE requestURL

\* Faulty variant of MarshalBody: the error of json.Marshal is dropped and an
\* empty body goes out.
MarshalBodyIgnoringError(body) ==
    IF ~body.nil THEN [err |-> NoErr, data |-> Marshal(body.v, body.t).s]
    ELSE [err |-> NoErr, data |-> <<>>]

\* data, err := json.Marshal(body) and the check of err.
Marshalled(m) ==
    IF ~m.ok THEN [err |-> MarshalError, data |-> <<>>]
    ELSE [err |-> NoErr, data |-> m.s]

\* reqBody of doRequestRaw: the JSON of body, or an empty buffer for a nil body.
MarshalBody(body) ==
    IF ~body.nil THEN Marshalled(Marshal(body.v, body.t))
    ELSE [err |-> NoErr, data |-> <<>>]

\* url.Parse inside http.NewRequest rejects a URL holding a control character.
ValidURL(u) == \A i \in 1..Len(u) : Code(u[i]) >= 32

\* http.NewRequest and the three headers.
NewRequest(c, method, requestURL, data) ==
    IF ~ValidURL(requestURL) THEN [err |-> NewRequestError, req |-> NoRequest]
    ELSE [err |-> NoErr,
          req |-> [Method |-> method,
                   URL    |-> requestURL,
                   Body   |-> data,
                   Header |-> [Authorization |-> <<"B","e","a","r","e","r"," ">> \o c.APIKey,
                               ContentType   |-> <<"a","p","p","l","i","c","a","t","i","o","n","/","j","s","o","n">>,
                               Accept        |-> <<"a","p","p","l","i","c","a","t","i","o","n","/","j","s","o","n">>]]]

\* doRequestRaw from http.NewRequest to Client.Do, r what NewRequest
\* returned: [err, do, req], do telling whether Client.Do is called, with req.
doRequestRawWithRequest(r) ==
    IF ~IsNil(r.err) THEN [err |-> r.err, do |-> FALSE, req |-> NoRequest]
    ELSE [err |-> NoErr, do |-> TRUE, req |-> r.req]

\* Faulty variant of doRequestRawWithBody: the error of json.Marshal is
\* returned only after the request went out.
doRequestRawWithBodyThenCheck(c, method, requestURL, reqBody) ==
    [err |-> reqBody.err,
     do  |-> TRUE,
     req |-> NewRequest(c, method, requestURL, reqBody.data).req]

\* doRequestRaw from the check of the error of json.Marshal on, reqBody what
\* MarshalBody returned.
doRequestRawWithBody(c, method, requestURL, reqBody) ==
    IF ~IsNil(reqBody.err) THEN [err |-> reqBody.err, do |-> FALSE, req |-> NoRequest]
    ELSE doRequestRawWithRequest(NewRequest(c, method, requestURL, reqBody.data))

\* doRequestRaw up to Client.Do.
doRequestRawSend(c, method, path, query, body) ==
    doRequestRawWithBody(c, method, RequestURL(c, path, query), MarshalBody(body))

\* Faulty variant of IsAPIError: 300 passes for a success.
IsAPIErrorAbove300(StatusCode) == StatusCode < 200 \/ StatusCode > 300

\* The status check of doRequestRaw.
IsAPIError(StatusCode) == StatusCode < 200 \/ StatusCode >= 300

\* doRequestRaw from the return of Client.Do: [data, err].
doRequestRawReceive(out) ==
    IF out.kind = "error" THEN [data |-> Nil, err |-> TransportError]
    ELSE IF out.kind = "readError" THEN [data |-> Nil, err |-> ReadError]
    ELSE IF IsAPIError(out.StatusCode)
         THEN [data |-> Nil, err |-> APIError(out.StatusCode, out.Body)]
         ELSE [data |-> Slice(out.Body), err |-> NoErr]

\* Faulty variant of IsBlank: only the empty body counts.
IsBlankEmptyOnly(data) == Len(data) = 0

\* The body check of doRequest: nothing is decoded from an empty or
\* white-space body.
IsBlank(data) == Len(TrimSpace(data)) = 0

\* return json.Unmarshal(data, result), u what Unmarshal came to.
Unmarshalled(u) == [err |-> IF u.err THEN UnmarshalError ELSE NoErr, v |-> u.v, unmarshals |-> 1]

\* doRequest after doRequestRaw returned r, for the result pointer result
\* (Nil, or Iface(T, cur) for a *T at a variable holding cur):
\* [err, v, unmarshals], v the variable afterwards.
doRequest(r, result) ==
    IF ~IsNil(r.err) THEN [err |-> r.err, v |-> IF result.nil THEN Nil ELSE result.v, unmarshals |-> 0]
    ELSE IF result.nil THEN [err |-> NoErr, v |-> Nil, unmarshals |-> 0]
    ELSE IF IsBlank(r.data.v) THEN [err |-> NoErr, v |-> result.v, unmarshals |-> 0]
    ELSE IF result.t = TBytes THEN [err |-> NoErr, v |-> Slice(r.data.v), unmarshals |-> 0]
    ELSE Unmarshalled(Unmarshal(r.data.v, result.t, result.v))

\* decodeUTMPreset from the second Unmarshal on, wrapped what it came to.
decodeUTMPresetWrapped(wrapped) ==
    IF ~wrapped.err THEN [result |-> Ptr(wrapped.v.Data), err |-> NoErr, unmarshals |-> 2]
    ELSE [result |-> Nil,
          err |-> Errorf("unable to decode UTM preset response"),
          unmarshals |-> 2]

\* decodeUTMPreset after the first Unmarshal, preset what it came to.
decodeUTMPresetBare(data, preset) ==
    IF ~preset.err THEN [result |-> Ptr(preset.v), err |-> NoErr, unmarshals |-> 1]
    ELSE decodeUTMPresetWrapped(Unmarshal(data, WrappedUTMPreset, Zero(WrappedUTMPreset)))

\* decodeUTMPreset(data): [result, err, unmarshals]
decodeUTMPreset(data) ==
    decodeUTMPresetBare(data, Unmarshal(data, UTMPreset, Zero(UTMPreset)))

\* Faulty variant of decodeUTMPresetListWrapped: it returns presets, which the
\* failed first Unmarshal left nil, instead of wrapped.Data.
decodeUTMPresetListWrappedReturningPresets(wrapped) ==
    IF ~wrapped.err THEN [result |-> Nil, err |-> NoErr, unmarshals |-> 2]
    ELSE [result |-> Nil,
          err |-> Errorf("unable to decode UTM preset list response"),
          unmarshals |-> 2]

\* The decoding of ListUTMPresets from the second Unmarshal on.
decodeUTMPresetListWrapped(wrapped) ==
    IF ~wrapped.err THEN [result |-> wrapped.v.Data, err |-> NoErr, unmarshals |-> 2]
    ELSE [result |-> Nil,
          err |-> Errorf("unable to decode UTM preset list response"),
          unmarshals |-> 2]

\* The decoding of ListUTMPresets after the first Unmarshal.
decodeUTMPresetListBare(data, presets) ==
    IF ~presets.err THEN [result |-> presets.v, err |-> NoErr, unmarshals |-> 1]
    ELSE decodeUTMPresetListWrapped(
             Unmarshal(data, WrappedUTMPresetList, Zero(WrappedUTMPresetList)))

\* The decoding of ListUTMPresets.
decodeUTMPresetList(data) ==
    decodeUTMPresetListBare(data, Unmarshal(data, TSlice(UTMPreset), Nil))

\* ------------------------------------------------------------------------
\* How an endpoint method returns
\* ------------------------------------------------------------------------

\* Faulty variant of ReturnPointer: return &x, err
ReturnPointerWithError(x) == [result |-> Ptr(x.v), err |-> x.err, unmarshals |-> x.unmarshals]

\* if err != nil { return nil, err }; return &x, nil
ReturnPointer(x) ==
    IF ~IsNil(x.err) THEN [result |-> Nil, err |-> x.err, unmarshals |-> x.unmarshals]
    ELSE [result |-> Ptr(x.v), err |-> NoErr, unmarshals |-> x.unmarshals]

\* if err != nil { return nil, err }; return xs, nil
ReturnSlice(x) ==
    IF ~IsNil(x.err) THEN [result |-> Nil, err |-> x.err, unmarshals |-> x.unmarshals]
    ELSE [result |-> x.v, err |-> NoErr, unmarshals |-> x.unmarshals]

\* if err != nil { return "", err }; return string(raw), nil
ReturnString(x) ==
    IF ~IsNil(x.err) THEN [result |-> <<>>, err |-> x.err, unmarshals |-> x.unmarshals]
    ELSE [result |-> IF x.v.nil THEN <<>> ELSE x.v.v, err |-> NoErr, unmarshals |-> x.unmarshals]

\* return c.doRequest(..., nil)
ReturnError(x) == [result |-> Nil, err |-> x.err, unmarshals |-> x.unmarshals]

\* return c.doRequestRaw(...)
ReturnRaw(r) == [result |-> r.data, err |-> r.err, unmarshals |-> 0]

\* Faulty variant of ReturnUTMPreset: a blank body gives the zero preset, as
\* doRequest would have it.
ReturnUTMPresetBlankAsZero(r) ==
    IF ~IsNil(r.err) THEN [result |-> Nil, err |-> r.err, unmarshals |-> 0]
    ELSE IF IsBlank(r.data.v)
         THEN [result |-> Ptr(Zero(UTMPreset)), err |-> NoErr, unmarshals |-> 0]
    ELSE decodeUTMPreset(r.data.v)

\* if err != nil { return nil, err }; return decodeUTMPreset(data)
ReturnUTMPreset(r) ==
    IF ~IsNil(r.err) THEN [result |-> Nil, err |-> r.err, unmarshals |-> 0]
    ELSE decodeUTMPreset(r.data.v)

ReturnUTMPresetList(r) ==
    IF ~IsNil(r.err) THEN [result |-> Nil, err |-> r.err, unmarshals |-> 0]
    ELSE decodeUTMPresetList(r.data.v)

\* What a method built on doRequest returns, x what doRequest left.
ReturnDecoded(returns, x) ==
    CASE returns = "pointer" -> ReturnPointer(x)
      [] returns = "slice" -> ReturnSlice(x)
      [] returns = "string" -> ReturnString(x)
      [] returns = "error" -> ReturnError(x)

\* What the method of call d returns once doRequestRaw returned r.
Finish(d, r) ==
    IF d.returns = "raw" THEN ReturnRaw(r)
    ELSE IF d.returns = "utmPreset" THEN ReturnUTMPreset(r)
    ELSE IF d.returns = "utmPresetList" THEN ReturnUTMPresetList(r)
    ELSE ReturnDecoded(d.returns, doRequest(r, d.result))

\* What the method of call d returns when doRequestRaw returned err before
\* Client.Do: the zero result and err.
Fail(d, err) ==
    IF d.returns = "raw" THEN ReturnRaw([data |-> Nil, err |-> err])
    ELSE IF d.returns \in {"utmPreset", "utmPresetList"}
         THEN [result |-> Nil, err |-> err, unmarshals |-> 0]
    ELSE ReturnDecoded(d.returns, [err |-> err, v |-> Nil, unmarshals |-> 0])

\* A call of an endpoint method: what it hands to doRequest or doRequestRaw
\* and how it returns.
Call(fn, args, method, path, query, body, result, returns) ==
    [fn |-> fn, args |-> args, method |-> method, path |-> path, query |-> query,
     body |-> body, result |-> result, returns |-> returns]

\* var x T; ... &x
Var(T) == Iface(T, Zero(T))

\* map[string]string{key: value}
MapOf(key, value) == Iface(TMapSS, Slice([k \in {key} |-> value]))

\* The elements a range over a slice visits.
Elems(s) == IF s.nil THEN <<>> ELSE s.v

\* ------------------------------------------------------------------------
\* The inputs of the model
\* ------------------------------------------------------------------------

\* The goroutines that call the client; Sequential is the one of a program
\* that makes its calls one after the other.
Threads == {"t1", "t2"}
Sequential == {"t1"}

APIKeys == {<<"k","e","y">>}

\* The values a caller may give Client.BaseURL after NewClient.
BaseURLs == {DefaultBaseURL, <<"h","t","t","p",":","/","/","h","/","/">>, <<"h","t","t","p",":","/","/","h","\n">>}

IDs == {7, 12}
ShortURLs == {<<"h","t","t","p","s",":","/","/","t",".","l","y","/","a">>}
Dates == {<<"2","0","2","4","-","0","1","-","0","2">>}
TagValues == {<<"t","&","g">>}

\* n ids, 5 and 9 in turn.
IDSeq(n) == [i \in 1..n |-> IF i % 2 = 1 THEN 5 ELSE 9]

StrPtrs == {Nil, Ptr(<<>>), Ptr(<<"p","w">>)}

PixelCreateRequests == {[Name |-> <<"n">>, PixelID |-> <<"p","1">>, PixelType |-> <<"f","b">>]}

PixelUpdateRequests ==
    {[ID |-> 7, Name |-> <<"n">>, PixelID |-> <<"p","1">>, PixelType |-> <<"f","b">>],
     [ID |-> 7, Name |-> <<"n">>, PixelID |-> <<>>, PixelType |-> <<>>]}

\* Only long_url and domain set.
MinimalCreate == [Zero(ShortLinkCreateRequest) EXCEPT !.LongURL = <<"h","t","t","p","s",":","/","/","e",".","c","o","m">>, !.Domain = <<"t",".","l","y">>]

ShortLinkCreateRequests ==
    {MinimalCreate,
     [MinimalCreate EXCEPT !.ShortID = Ptr(<<"a","b">>), !.ExpireAtViews = Ptr(0),
                           !.Description = Ptr(<<>>), !.PublicStats = Ptr(FALSE),
                           !.Tags = Slice(<<5, 9>>), !.Pixels = Slice(<<>>),
                           !.Meta = Iface(TString, <<"m">>)],
     [MinimalCreate EXCEPT !.Meta = Iface(TChan, 0)]}

MinimalUpdate == [Zero(ShortLinkUpdateRequest) EXCEPT !.ShortURL = <<"h","t","t","p","s",":","/","/","t",".","l","y","/","a">>]

ShortLinkUpdateRequests ==
    {[MinimalUpdate EXCEPT !.LongURL = <<"h","t","t","p","s",":","/","/","e",".","c","o","m">>],
     [MinimalUpdate EXCEPT !.Description = Ptr(<<"d">>)],
     [MinimalUpdate EXCEPT !.LongURL = <<"h","t","t","p","s",":","/","/","e",".","c","o","m">>, !.Meta = Iface(TChan, 0)]}

ExpandRequests == {[ShortURL |-> u, Password |-> pw] : u \in ShortURLs, pw \in StrPtrs}

ListShortLinksOptionsSet ==
    {[Search |-> s, TagIDs |-> t, PixelIDs |-> r.ids, StartDate |-> r.date,
      EndDate |-> r.date, Domains |-> r.ids, Page |-> pg] :
        s \in {<<>>, <<"a"," ","b">>},
        t \in {Nil, Slice(IDSeq(2)), Slice(IDSeq(MaxIDs))},
        r \in {[ids |-> Nil, date |-> <<>>], [ids |-> Slice(<<7>>), date |-> <<"2","0","2","4","-","0","1","-","0","2">>]},
        pg \in {-1, 0, 2}}

\* The maps a caller gives ListShortLinks (nil included).
QueryParamsSet ==
    {Nil,
     Slice([k \in {<<"s","e","a","r","c","h">>} |-> <<"x">>]),
     Slice([k \in {<<"s","e","a","r","c","h">>} |-> <<>>]),
     Slice([k \in {<<"s","e","a","r","c","h">>, <<"p","a","g","e">>} |-> IF k = <<"p","a","g","e">> THEN <<"0">> ELSE <<"a"," ","b">>])}

BulkShortenLinkSet == {[LongURL |-> <<"h","t","t","p","s",":","/","/","e",".","c","o","m">>, Backhalf |-> Nil, Password |-> pw,
                        Description |-> Nil] : pw \in {Nil, Ptr(<<"p","w">>)}}

BulkUpdateLinkSet == {[ShortURL |-> <<"h","t","t","p","s",":","/","/","t",".","l","y","/","a">>, LongURL |-> l, Backhalf |-> Nil,
                       Password |-> Nil, Description |-> Ptr(<<"d">>)] : l \in {<<>>, <<"h","t","t","p","s",":","/","/","e",".","c","o","m">>}}

BulkShortenRequests ==
    {[Domain |-> <<"t",".","l","y">>, Links |-> l, Tags |-> Nil, Pixels |-> Nil] :
        l \in {Iface(TSlice(BulkShortenLink), Slice(<<e>>)) : e \in BulkShortenLinkSet}
              \cup {Iface(TSlice(TString), Slice(<<<<"h","t","t","p","s",":","/","/","e",".","c","o","m">>>>)), Nil, Iface(TChan, 0)}}

BulkUpdateRequests ==
    {[Links |-> l, Tags |-> Slice(<<5>>), Pixels |-> Nil] :
        l \in {Iface(TSlice(BulkUpdateLink), Slice(<<e>>)) : e \in BulkUpdateLinkSet}
              \cup {Iface(TChan, 0)}}

StatsRequests ==
    {[ShortURL |-> u, StartDate |-> s, EndDate |-> e] :
        u \in ShortURLs, s \in {<<>>} \cup Dates, e \in {<<>>} \cup Dates}

QRCodeRequests ==
    {[ShortURL |-> u, Output |-> o, Format |-> f] :
        u \in ShortURLs, o \in {<<>>, <<"b","a","s","e","6","4">>}, f \in {<<>>, <<"e","p","s">>}}

UTMPresetRequests ==
    {[Name |-> <<"x">>, Source |-> s, Medium |-> <<>>, Campaign |-> <<>>,
      Content |-> <<>>, Term |-> <<>>] : s \in {<<>>, <<"n","e","w","s">>}}

QRCodeUpdateRequests ==
    {[Zero(QRCodeUpdateRequest) EXCEPT !.ShortURL = <<"h","t","t","p","s",":","/","/","t",".","l","y","/","a">>, !.DotsColor = c] :
        c \in {Nil, Ptr(<<"#","f","f","f">>)}}

Pages == {-1, 0, 2}

\* ------------------------------------------------------------------------
\* What the network answers
\* ------------------------------------------------------------------------

StatusCodes == {199, 200, 299, 300, 404}

Preset1 == [Zero(UTMPreset) EXCEPT !.ID = 1, !.Name = <<"x">>, !.Source = <<"n","e","w","s">>]
Preset2 == [Zero(UTMPreset) EXCEPT !.ID = 2, !.Name = <<"y">>]

Presets == {Preset1, Preset2}

PresetLists == {<<>>, <<Preset1>>, <<Preset1, Preset2>>}

\* The JSON encoding of a preset, and of a list of presets.
PresetJSON(P) == Marshal(P, UTMPreset).s
PresetListJSON(L) == Marshal(Slice(L), TSlice(UTMPreset)).s

\* {"data": inner}
DataEnvelope(inner) == <<"{","\"","d","a","t","a","\"",":">> \o inner \o <<"}">>

FooBody == <<"{","\"","f","o","o","\"",":","1","}">>

\* An object whose id decodes and whose name does not.
HalfBody == <<"{","\"","i","d","\"",":","1",",","\"","n","a","m","e","\"",":","5","}">>

ResponseBodies ==
    {<<>>, <<" ">>, <<" ","\n","\t","\r">>, <<"\f">>,
     FooBody, <<"n","u","l","l">>, <<"{","\"","i","d","\"",":","\"","x","\"","}">>, <<"{","\"","I","D","\"",":"," ","3",","," ","\"","t","a","g","\"",":"," ","\"","t","\"","}","\n">>, <<"{">>, <<"<","h","t","m","l",">">>,
     HalfBody, <<"[">> \o HalfBody \o <<"]">>}
    \cup {PresetJSON(P) : P \in Presets}
    \cup {DataEnvelope(PresetJSON(P)) : P \in {Preset1}}
    \cup {PresetListJSON(L) : L \in PresetLists}
    \cup {DataEnvelope(PresetListJSON(L)) : L \in PresetLists}

\* What Client.Do and the read of the body come to: an error of the
\* transport, a response whose body cannot be read, or a response.
Outcomes ==
    {[kind |-> "error"]}
    \cup {[kind |-> "readError", StatusCode |-> s] : s \in {200, 404}}
    \cup {[kind |-> "response", StatusCode |-> s, Body |-> b] :
            s \in StatusCodes, b \in ResponseBodies}

\* ------------------------------------------------------------------------
\* State
\* ------------------------------------------------------------------------

VARIABLES
    client,     \* the Client: APIKey, BaseURL, Client
    pc,         \* per thread: "idle", "sent" (inside Client.Do) or "done"
    call,       \* per thread: the endpoint call it is in, or NoCall
    sent,       \* per thread: the request given to Client.Do, or NoRequest
    exchanges,  \* per thread: the calls of Client.Do made by its call
    resp,       \* per thread: what Client.Do came to, or NoOutcome
    ret         \* per thread: what the method returned, or NoReturn

vars == <<client, pc, call, sent, exchanges, resp, ret>>

NoCall == [fn |-> "none"]
NoOutcome == [kind |-> "none"]
NoReturn == [err |-> [kind |-> "none"]]

Init ==
    /\ client \in {NewClient(k) : k \in APIKeys}
    /\ pc = [t \in Threads |-> "idle"]
    /\ call = [t \in Threads |-> NoCall]
    /\ sent = [t \in Threads |-> NoRequest]
    /\ exchanges = [t \in Threads |-> 0]
    /\ resp = [t \in Threads |-> NoOutcome]
    /\ ret = [t \in Threads |-> NoReturn]

\* client.BaseURL = b, between calls.
SetBaseURL ==
    /\ \A t \in Threads : pc[t] = "idle"
    /\ \E b \in BaseURLs \ {client.BaseURL} : client' = [client EXCEPT !.BaseURL = b]
    /\ UNCHANGED <<pc, call, sent, exchanges, resp, ret>>

\* Faulty variant of Started: the call stores the base it trimmed back into
\* the client.
StartedStoringBase(t, d, s) ==
    /\ call' = [call EXCEPT ![t] = d]
    /\ sent' = [sent EXCEPT ![t] = s.req]
    /\ exchanges' = [exchanges EXCEPT ![t] = IF s.do THEN 1 ELSE 0]
    /\ pc' = [pc EXCEPT ![t] = IF IsNil(s.err) THEN "sent" ELSE "done"]
    /\ ret' = [ret EXCEPT ![t] = IF IsNil(s.err) THEN NoReturn ELSE Fail(d, s.err)]
    /\ client' = [client EXCEPT !.BaseURL = TrimRight(client.BaseURL, {"/"})]
    /\ UNCHANGED resp

\* Thread t is in the call d and doRequestRaw came to s before Client.Do.
Started(t, d, s) ==
    /\ call' = [call EXCEPT ![t] = d]
    /\ sent' = [sent EXCEPT ![t] = s.req]
    /\ exchanges' = [exchanges EXCEPT ![t] = IF s.do THEN 1 ELSE 0]
    /\ pc' = [pc EXCEPT ![t] = IF IsNil(s.err) THEN "sent" ELSE "done"]
    /\ ret' = [ret EXCEPT ![t] = IF IsNil(s.err) THEN NoReturn ELSE Fail(d, s.err)]
    /\ UNCHANGED <<client, resp>>

\* Thread t enters the endpoint call d: doRequestRaw runs to Client.Do, or
\* returns the error that stops it before.
Begin(t, d) ==
    /\ pc[t] = "idle"
    /\ Started(t, d, doRequestRawSend(client, d.method, d.path, d.query, d.body))

\* Client.Do comes to out for thread t: doRequestRaw reads and classifies the
\* response, the method decodes it and returns.
Responded(t, out) ==
    /\ resp' = [resp EXCEPT ![t] = out]
    /\ ret' = [ret EXCEPT ![t] = Finish(call[t], doRequestRawReceive(out))]
    /\ pc' = [pc EXCEPT ![t] = "done"]
    /\ UNCHANGED <<client, call, sent, exchanges>>

\* Client.Do returns to thread t.
Respond(t) ==
    /\ pc[t] = "sent"
    /\ \E out \in Outcomes : Responded(t, out)

\* The caller takes what the method returned; the thread is free again.
Return(t) ==
    /\ pc[t] = "done"
    /\ pc' = [pc EXCEPT ![t] = "idle"]
    /\ call' = [call EXCEPT ![t] = NoCall]
    /\ sent' = [sent EXCEPT ![t] = NoRequest]
    /\ exchanges' = [exchanges EXCEPT ![t] = 0]
    /\ resp' = [resp EXCEPT ![t] = NoOutcome]
    /\ ret' = [ret EXCEPT ![t] = NoReturn]
    /\ UNCHANGED client

\* ------------------------------------------------------------------------
\* The endpoint methods
\* ------------------------------------------------------------------------

\* For each method: its calls over the inputs of the model (what the method
\* hands to doRequest or doRequestRaw and how it returns), and the action of
\* a thread entering one of them.

\* Pixel management

CreatePixelCalls ==
    {Call("CreatePixel", reqData, MethodPost, <<"/","a","p","i","/","v","1","/","l","i","n","k","/","p","i","x","e","l">>, NilQuery,
          Iface(PixelCreateRequest, reqData), Var(Pixel), "pointer") :
        reqData \in PixelCreateRequests}

CreatePixel(t) == \E d \in CreatePixelCalls : Begin(t, d)

ListPixelsCalls ==
    {Call("ListPixels", <<>>, MethodGet, <<"/","a","p","i","/","v","1","/","l","i","n","k","/","p","i","x","e","l">>, NilQuery,
          Nil, Var(TSlice(Pixel)), "slice")}

ListPixels(t) == \E d \in ListPixelsCalls : Begin(t, d)

GetPixelCalls ==
    {Call("GetPixel", id, MethodGet, <<"/","a","p","i","/","v","1","/","l","i","n","k","/","p","i","x","e","l","/">> \o Itoa(id), NilQuery,
          Nil, Var(Pixel), "pointer") :
        id \in IDs}

GetPixel(t) == \E d \in GetPixelCalls : Begin(t, d)

UpdatePixelCalls ==
    {Call("UpdatePixel", reqData, MethodPut,
          <<"/","a","p","i","/","v","1","/","l","i","n","k","/","p","i","x","e","l","/">> \o Itoa(reqData.ID), NilQuery,
          Iface(PixelUpdateRequest, reqData), Var(Pixel), "pointer") :
        reqData \in PixelUpdateRequests}

UpdatePixel(t) == \E d \in UpdatePixelCalls : Begin(t, d)

DeletePixelCalls ==
    {Call("DeletePixel", id, MethodDelete, <<"/","a","p","i","/","v","1","/","l","i","n","k","/","p","i","x","e","l","/">> \o Itoa(id),
          NilQuery, Nil, Nil, "error") :
        id \in IDs}

DeletePixel(t) == \E d \in DeletePixelCalls : Begin(t, d)

\* Short link management

CreateShortLinkCalls ==
    {Call("CreateShortLink", reqData, MethodPost, <<"/","a","p","i","/","v","1","/","l","i","n","k","/","s","h","o","r","t","e","n">>, NilQuery,
          Iface(ShortLinkCreateRequest, reqData), Var(ShortLink), "pointer") :
        reqData \in ShortLinkCreateRequests}

CreateShortLink(t) == \E d \in CreateShortLinkCalls : Begin(t, d)

GetShortLinkCalls ==
    {Call("GetShortLink", shortURL, MethodGet, <<"/","a","p","i","/","v","1","/","l","i","n","k">>,
          QuerySet(EmptyQuery, <<"s","h","o","r","t","_","u","r","l">>, shortURL),
          Nil, Var(ShortLink), "pointer") :
        shortURL \in ShortURLs}

GetShortLink(t) == \E d \in GetShortLinkCalls : Begin(t, d)

UpdateShortLinkCalls ==
    {Call("UpdateShortLink", reqData, MethodPut, <<"/","a","p","i","/","v","1","/","l","i","n","k">>, NilQuery,
          Iface(ShortLinkUpdateRequest, reqData), Var(ShortLink), "pointer") :
        reqData \in ShortLinkUpdateRequests}

UpdateShortLink(t) == \E d \in UpdateShortLinkCalls : Begin(t, d)

DeleteShortLinkCalls ==
    {Call("DeleteShortLink", shortURL, MethodDelete, <<"/","a","p","i","/","v","1","/","l","i","n","k">>, NilQuery,
          MapOf(<<"s","h","o","r","t","_","u","r","l">>, shortURL), Nil, "error") :
        shortURL \in ShortURLs}

DeleteShortLink(t) == \E d \in DeleteShortLinkCalls : Begin(t, d)

ExpandShortLinkCalls ==
    {Call("ExpandShortLink", reqData, MethodPost, <<"/","a","p","i","/","v","1","/","l","i","n","k","/","e","x","p","a","n","d">>, NilQuery,
          Iface(ExpandRequest, reqData), Var(ExpandResponse), "pointer") :
        reqData \in ExpandRequests}

ExpandShortLink(t) == \E d \in ExpandShortLinkCalls : Begin(t, d)

\* The query ListShortLinksDetailed builds from its options.
ListShortLinksDetailedQuery(options) ==
    LET q1 == IF options.Search # <<>> THEN QuerySet(EmptyQuery, <<"s","e","a","r","c","h">>, options.Search)
              ELSE EmptyQuery
        q2 == addIndexedIntSlice(q1, <<"t","a","g","_","i","d","s">>, Elems(options.TagIDs))
        q3 == addIndexedIntSlice(q2, <<"p","i","x","e","l","_","i","d","s">>, Elems(options.PixelIDs))
        q4 == IF options.StartDate # <<>> THEN QuerySet(q3, <<"s","t","a","r","t","_","d","a","t","e">>, options.StartDate)
              ELSE q3
        q5 == IF options.EndDate # <<>> THEN QuerySet(q4, <<"e","n","d","_","d","a","t","e">>, options.EndDate)
              ELSE q4
        q6 == addIndexedIntSlice(q5, <<"d","o","m","a","i","n","s">>, Elems(options.Domains))
    IN  IF options.Page > 0 THEN QuerySet(q6, <<"p","a","g","e">>, Itoa(options.Page)) ELSE q6

ListShortLinksDetailedCalls ==
    {Call("ListShortLinksDetailed", options, MethodGet, <<"/","a","p","i","/","v","1","/","l","i","n","k","/","l","i","s","t">>,
          ListShortLinksDetailedQuery(options),
          Nil, Var(ShortLinkListResponse), "pointer") :
        options \in ListShortLinksOptionsSet}

ListShortLinksDetailed(t) == \E d \in ListShortLinksDetailedCalls : Begin(t, d)

ListShortLinksCalls ==
    {Call("ListShortLinks", queryParams, MethodGet, <<"/","a","p","i","/","v","1","/","l","i","n","k","/","l","i","s","t">>,
          queryFromMap(Elems(queryParams)),
          Nil, Var(TBytes), "string") :
        queryParams \in QueryParamsSet}

ListShortLinks(t) == \E d \in ListShortLinksCalls : Begin(t, d)

BulkShortenLinksCalls ==
    {Call("BulkShortenLinks", reqData, MethodPost, <<"/","a","p","i","/","v","1","/","l","i","n","k","/","b","u","l","k">>, NilQuery,
          Iface(BulkShortenRequest, reqData), Var(TBytes), "string") :
        reqData \in BulkShortenRequests}

BulkShortenLinks(t) == \E d \in BulkShortenLinksCalls : Begin(t, d)

BulkUpdateLinksCalls ==
    {Call("BulkUpdateLinks", reqData, MethodPost, <<"/","a","p","i","/","v","1","/","l","i","n","k","/","b","u","l","k","/","u","p","d","a","t","e">>,
          NilQuery, Iface(BulkUpdateRequest, reqData), Var(TBytes), "string") :
        reqData \in BulkUpdateRequests}

BulkUpdateLinks(t) == \E d \in BulkUpdateLinksCalls : Begin(t, d)

\* Stats management

\* The query GetStatsWithRange and GetOneLinkStats build from their request.
StatsQuery(reqData) ==
    LET q1 == QuerySet(EmptyQuery, <<"s","h","o","r","t","_","u","r","l">>, reqData.ShortURL)
        q2 == IF reqData.StartDate # <<>> THEN QuerySet(q1, <<"s","t","a","r","t","_","d","a","t","e">>, reqData.StartDate)
              ELSE q1
    IN  IF reqData.EndDate # <<>> THEN QuerySet(q2, <<"e","n","d","_","d","a","t","e">>, reqData.EndDate) ELSE q2

GetStatsWithRangeCall(fn, reqData) ==
    Call(fn, reqData, MethodGet, <<"/","a","p","i","/","v","1","/","l","i","n","k","/","s","t","a","t","s">>, StatsQuery(reqData),
         Nil, Var(Stats), "pointer")

GetStatsCalls ==
    {GetStatsWithRangeCall("GetStats",
          [ShortURL |-> shortURL, StartDate |-> <<>>, EndDate |-> <<>>]) :
        shortURL \in ShortURLs}

GetStats(t) == \E d \in GetStatsCalls : Begin(t, d)

GetStatsWithRangeCalls ==
    {GetStatsWithRangeCall("GetStatsWithRange", reqData) :
        reqData \in StatsRequests}

GetStatsWithRange(t) == \E d \in GetStatsWithRangeCalls : Begin(t, d)

\* OneLink management

GetOneLinkStatsCalls ==
    {Call("GetOneLinkStats", reqData, MethodGet, <<"/","a","p","i","/","v","1","/","o","n","e","l","i","n","k","/","s","t","a","t","s">>,
          StatsQuery(reqData), Nil, Var(OneLinkStats), "pointer") :
        reqData \in StatsRequests}

GetOneLinkStats(t) == \E d \in GetOneLinkStatsCalls : Begin(t, d)

\* Faulty variant of DeleteOneLinkStatsCalls: the short URL goes in the path
\* and no body is sent.
DeleteOneLinkStatsCallsByPath ==
    {Call("DeleteOneLinkStats", shortURL, MethodDelete,
          <<"/","a","p","i","/","v","1","/","o","n","e","l","i","n","k","/","s","t","a","t","/">> \o shortURL, NilQuery, Nil, Nil, "error") :
        shortURL \in ShortURLs}

DeleteOneLinkStatsCalls ==
    {Call("DeleteOneLinkStats", shortURL, MethodDelete, <<"/","a","p","i","/","v","1","/","o","n","e","l","i","n","k","/","s","t","a","t">>,
          NilQuery, MapOf(<<"s","h","o","r","t","_","u","r","l">>, shortURL), Nil, "error") :
        shortURL \in ShortURLs}

DeleteOneLinkStats(t) == \E d \in DeleteOneLinkStatsCalls : Begin(t, d)

ListOneLinksCalls ==
    {Call("ListOneLinks", page, MethodGet, <<"/","a","p","i","/","v","1","/","o","n","e","l","i","n","k","/","l","i","s","t">>,
          IF page > 0 THEN QuerySet(EmptyQuery, <<"p","a","g","e">>, Itoa(page)) ELSE EmptyQuery,
          Nil, Var(OneLinkListResponse), "pointer") :
        page \in Pages}

ListOneLinks(t) == \E d \in ListOneLinksCalls : Begin(t, d)

\* UTM preset management

CreateUTMPresetCalls ==
    {Call("CreateUTMPreset", reqData, MethodPost, <<"/","a","p","i","/","v","1","/","l","i","n","k","/","u","t","m","-","p","r","e","s","e","t">>,
          NilQuery, Iface(UTMPresetRequest, reqData), Nil, "utmPreset") :
        reqData \in UTMPresetRequests}

CreateUTMPreset(t) == \E d \in CreateUTMPresetCalls : Begin(t, d)

ListUTMPresetsCalls ==
    {Call("ListUTMPresets", <<>>, MethodGet, <<"/","a","p","i","/","v","1","/","l","i","n","k","/","u","t","m","-","p","r","e","s","e","t">>, NilQuery,
          Nil, Nil, "utmPresetList")}

ListUTMPresets(t) == \E d \in ListUTMPresetsCalls : Begin(t, d)

GetUTMPresetCalls ==
    {Call("GetUTMPreset", id, MethodGet, <<"/","a","p","i","/","v","1","/","l","i","n","k","/","u","t","m","-","p","r","e","s","e","t","/">> \o Itoa(id),
          NilQuery, Nil, Nil, "utmPreset") :
        id \in IDs}

GetUTMPreset(t) == \E d \in GetUTMPresetCalls : Begin(t, d)

UpdateUTMPresetCalls ==
    {Call("UpdateUTMPreset", <<id, reqData>>, MethodPut,
          <<"/","a","p","i","/","v","1","/","l","i","n","k","/","u","t","m","-","p","r","e","s","e","t","/">> \o Itoa(id), NilQuery,
          Iface(UTMPresetRequest, reqData), Nil, "utmPreset") :
        id \in IDs, reqData \in UTMPresetRequests}

UpdateUTMPreset(t) == \E d \in UpdateUTMPresetCalls : Begin(t, d)

DeleteUTMPresetCalls ==
    {Call("DeleteUTMPreset", id, MethodDelete,
          <<"/","a","p","i","/","v","1","/","l","i","n","k","/","u","t","m","-","p","r","e","s","e","t","/">> \o Itoa(id), NilQuery, Nil, Nil, "error") :
        id \in IDs}

DeleteUTMPreset(t) == \E d \in DeleteUTMPresetCalls : Begin(t, d)

\* QR code management

GetQRCodeCalls ==
    {LET q1 == QuerySet(EmptyQuery, <<"s","h","o","r","t","_","u","r","l">>, reqData.ShortURL)
         q2 == IF reqData.Output # <<>> THEN QuerySet(q1, <<"o","u","t","p","u","t">>, reqData.Output) ELSE q1
         q3 == IF reqData.Format # <<>> THEN QuerySet(q2, <<"f","o","r","m","a","t">>, reqData.Format) ELSE q2
     IN  Call("GetQRCode", reqData, MethodGet, <<"/","a","p","i","/","v","1","/","l","i","n","k","/","q","r","-","c","o","d","e">>, q3,
              Nil, Nil, "raw") :
        reqData \in QRCodeRequests}

GetQRCode(t) == \E d \in GetQRCodeCalls : Begin(t, d)

UpdateQRCodeCalls ==
    {Call("UpdateQRCode", reqData, MethodPut, <<"/","a","p","i","/","v","1","/","l","i","n","k","/","q","r","-","c","o","d","e">>, NilQuery,
          Iface(QRCodeUpdateRequest, reqData), Var(QRCode), "pointer") :
        reqData \in QRCodeUpdateRequests}

UpdateQRCode(t) == \E d \in UpdateQRCodeCalls : Begin(t, d)

\* Tag management

ListTagsCalls ==
    {Call("ListTags", <<>>, MethodGet, <<"/","a","p","i","/","v","1","/","l","i","n","k","/","t","a","g">>, NilQuery,
          Nil, Var(TSlice(Tag)), "slice")}

ListTags(t) == \E d \in ListTagsCalls : Begin(t, d)

CreateTagCalls ==
    {Call("CreateTag", tagValue, MethodPost, <<"/","a","p","i","/","v","1","/","l","i","n","k","/","t","a","g">>, NilQuery,
          MapOf(<<"t","a","g">>, tagValue), Var(Tag), "pointer") :
        tagValue \in TagValues}

CreateTag(t) == \E d \in CreateTagCalls : Begin(t, d)

GetTagCalls ==
    {Call("GetTag", id, MethodGet, <<"/","a","p","i","/","v","1","/","l","i","n","k","/","t","a","g","/">> \o Itoa(id), NilQuery,
          Nil, Var(Tag), "pointer") :
        id \in IDs}

GetTag(t) == \E d \in GetTagCalls : Begin(t, d)

UpdateTagCalls ==
    {Call("UpdateTag", <<id, tagValue>>, MethodPut,
          <<"/","a","p","i","/","v","1","/","l","i","n","k","/","t","a","g","/">> \o Itoa(id), NilQuery,
          MapOf(<<"t","a","g">>, tagValue), Var(Tag), "pointer") :
        id \in IDs, tagValue \in TagValues}

UpdateTag(t) == \E d \in UpdateTagCalls : Begin(t, d)

DeleteTagCalls ==
    {Call("DeleteTag", id, MethodDelete, <<"/","a","p","i","/","v","1","/","l","i","n","k","/","t","a","g","/">> \o Itoa(id),
          NilQuery, Nil, Nil, "error") :
        id \in IDs}

DeleteTag(t) == \E d \in DeleteTagCalls : Begin(t, d)

\* ------------------------------------------------------------------------
\* The specification
\* ------------------------------------------------------------------------

\* Thread t calls one of the endpoint methods.
Invoke(t) ==
    \/ CreatePixel(t) \/ ListPixels(t) \/ GetPixel(t) \/ UpdatePixel(t) \/ DeletePixel(t)
    \/ CreateShortLink(t) \/ GetShortLink(t) \/ UpdateShortLink(t) \/ DeleteShortLink(t)
    \/ ExpandShortLink(t) \/ ListShortLinksDetailed(t) \/ ListShortLinks(t)
    \/ BulkShortenLinks(t) \/ BulkUpdateLinks(t)
    \/ GetStats(t) \/ GetStatsWithRange(t)
    \/ GetOneLinkStats(t) \/ DeleteOneLinkStats(t) \/ ListOneLinks(t)
    \/ CreateUTMPreset(t) \/ ListUTMPresets(t) \/ GetUTMPreset(t) \/ UpdateUTMPreset(t)
    \/ DeleteUTMPreset(t)
    \/ GetQRCode(t) \/ UpdateQRCode(t)
    \/ ListTags(t) \/ CreateTag(t) \/ GetTag(t) \/ UpdateTag(t) \/ DeleteTag(t)

Next ==
    \/ SetBaseURL
    \/ \E t \in Sequential : Invoke(t) \/ Respond(t) \/ Return(t)

Spec == Init /\ [][Next]_vars

\* ------------------------------------------------------------------------
\* Two goroutines on one Client
\* ------------------------------------------------------------------------

\* The calls the two goroutines make: one method of each way of returning
\* (pointer, slice, string, error, raw bytes, preset list), with a body and
\* without, one of them with a body json.Marshal rejects.
ConcurrentCalls ==
    GetPixelCalls \cup ListTagsCalls \cup DeleteShortLinkCalls \cup ListUTMPresetsCalls
        \cup ListShortLinksCalls \cup GetQRCodeCalls \cup UpdateShortLinkCalls

\* What the network answers them.
ConcurrentOutcomes ==
    {out \in Outcomes :
        \/ out.kind = "error"
        \/ /\ out.kind = "response"
           /\ out.StatusCode \in {200, 404}
           /\ out.Body \in {<<" ">>, <<"{","\"","i","d","\"",":","\"","x","\"","}">>, PresetListJSON(<<Preset1>>)}}

\* Thread t calls an endpoint method while the other may be inside one.
InvokeConcurrently(t) == \E d \in ConcurrentCalls : Begin(t, d)

\* Client.Do returns to thread t, in any order with the other thread's.
RespondConcurrently(t) ==
    /\ pc[t] = "sent"
    /\ \E out \in ConcurrentOutcomes : Responded(t, out)

NextConcurrent ==
    \/ SetBaseURL
    \/ \E t \in Threads : InvokeConcurrently(t) \/ RespondConcurrently(t) \/ Return(t)

SpecConcurrent == Init /\ [][NextConcurrent]_vars
\* ------------------------------------------------------------------------
\* Reading a request back, as the server does
\* ------------------------------------------------------------------------

\* s split at every sep.
Split(s, sep) ==
    LET P == {i \in 1..Len(s) : s[i] = sep}
        n == Cardinality(P)
        cut(k) == IF k = 0 THEN 0
                  ELSE IF k = n + 1 THEN Len(s) + 1
                  ELSE CHOOSE p \in P : Cardinality({q \in P : q < p}) = k - 1
    IN  IF s = <<>> THEN <<>>
        ELSE [k \in 1..(n + 1) |-> SubSeq(s, cut(k - 1) + 1, cut(k) - 1)]

\* The place of the first c in s, 0 when it has none.
IndexOf(s, c) ==
    LET P == {i \in 1..Len(s) : s[i] = c}
    IN  IF P = {} THEN 0 ELSE CHOOSE i \in P : \A j \in P : i <= j

HexValue(c) == (CHOOSE i \in 1..Len(UpperHex) : UpperHex[i] = c) - 1

CharOf(n) == CHOOSE c \in Chars : Code(c) = n

\* url.QueryUnescape
RECURSIVE QueryUnescape(_)
QueryUnescape(s) ==
    IF s = <<>> THEN <<>>
    ELSE IF Head(s) = "+" THEN <<" ">> \o QueryUnescape(Tail(s))
    ELSE IF Head(s) = "%"
         THEN <<CharOf(16 * HexValue(s[2]) + HexValue(s[3]))>> \o QueryUnescape(SubSeq(s, 4, Len(s)))
    ELSE <<Head(s)>> \o QueryUnescape(Tail(s))

\* The part of a URL after its "?", empty when it has none.
RawQuery(u) == IF IndexOf(u, "?") = 0 THEN <<>> ELSE SubSeq(u, IndexOf(u, "?") + 1, Len(u))

\* The parameters of a URL, in the order they stand in it: [k, v].
QueryParams(u) ==
    LET parts == Split(RawQuery(u), "&")
    IN  [i \in 1..Len(parts) |->
            LET e == IndexOf(parts[i], "=")
            IN  [k |-> QueryUnescape(SubSeq(parts[i], 1, e - 1)),
                 v |-> QueryUnescape(SubSeq(parts[i], e + 1, Len(parts[i])))]]

\* The parameters whose key starts with prefix, in order.
WithPrefix(ps, prefix) == SelectSeq(ps, LAMBDA p : HasPrefix(p.k, prefix))

\* The keys of the JSON object a request body holds.
BodyKeys(body) ==
    LET p == ParseJSON(body)
    IN  IF p.ok /\ p.v.t = "obj" THEN {p.v.m[i].k : i \in 1..Len(p.v.m)} ELSE {}

Is2xx(StatusCode) == StatusCode \in 200..299

\* Thread t's call got a response with a 2xx status.
Succeeded(t) == pc[t] = "done" /\ resp[t].kind = "response" /\ Is2xx(resp[t].StatusCode)

\* Thread t's call put a request on the network.
HasSent(t) == pc[t] \in {"sent", "done"} /\ sent[t] # NoRequest

WhiteSpace == {" ", "\t", "\n", "\r", "\f"}

OnlyWhiteSpace(b) == \A i \in 1..Len(b) : b[i] \in WhiteSpace

\* ------------------------------------------------------------------------
\* The claims
\* ------------------------------------------------------------------------

\* C1: a response with a status outside 200..299 makes the call return an
\* APIError with that status and with the response body unchanged; a
\* response with a status inside 200..299 never yields an APIError.
C1_APIErrorFidelity ==
    \A t \in Threads :
        (pc[t] = "done" /\ resp[t].kind = "response") =>
            IF Is2xx(resp[t].StatusCode)
            THEN ret[t].err.kind # "APIError"
            ELSE /\ ret[t].err.kind = "APIError"
                 /\ ret[t].err.StatusCode = resp[t].StatusCode
                 /\ ret[t].err.Body = resp[t].Body

\* C1 witness: a 404 with a body came back as an APIError holding both.
C1_Witness ==
    \E t \in Threads :
        /\ pc[t] = "done" /\ resp[t].kind = "response"
        /\ resp[t].StatusCode = 404 /\ resp[t].Body = <<"<","h","t","m","l",">">>
        /\ ret[t].err = APIError(404, <<"<","h","t","m","l",">">>)

RawMethods == {"GetQRCode", "ListShortLinks", "BulkShortenLinks", "BulkUpdateLinks"}

\* The bytes a raw-response method returned ([]byte or string).
RawResult(t) == IF call[t].returns = "raw" THEN Elems(ret[t].result) ELSE ret[t].result

\* C2 (as claimed): a raw-response method returns exactly the bytes of every
\* 2xx response body, an empty or white-space one included.
C2_RawBodyUnchanged ==
    \A t \in Threads :
        (Succeeded(t) /\ call[t].fn \in RawMethods) =>
            IsNil(ret[t].err) /\ RawResult(t) = resp[t].Body

\* C3: doRequest with a typed result and a 2xx body that is empty or only
\* white space returns no error, decodes nothing and leaves the result at its
\* zero value, which the method returns with a nil error.
C3_BlankBodyZeroValue ==
    \A t \in Threads :
        (Succeeded(t) /\ call[t].returns \in {"pointer", "slice"}
                      /\ OnlyWhiteSpace(resp[t].Body)) =>
            /\ IsNil(ret[t].err)
            /\ ret[t].unmarshals = 0
            /\ ret[t].result = IF call[t].returns = "pointer"
                               THEN Ptr(Zero(call[t].result.t))
                               ELSE Zero(call[t].result.t)

\* C3 witness: GetShortLink returned a zero ShortLink and a nil error from a
\* body of white space.
C3_Witness ==
    \E t \in Threads :
        /\ Succeeded(t) /\ call[t].fn = "GetShortLink"
        /\ resp[t].Body = <<" ","\n","\t","\r">>
        /\ ret[t].result = Ptr(Zero(ShortLink)) /\ IsNil(ret[t].err)

UTMPresetMethods == {"CreateUTMPreset", "GetUTMPreset", "UpdateUTMPreset"}

\* C4 (as claimed): a 2xx body {"data": P}, P the JSON of a preset, makes
\* CreateUTMPreset, GetUTMPreset and UpdateUTMPreset return the preset P.
C4_WrappedPresetDecodes ==
    \A t \in Threads : \A P \in Presets :
        (Succeeded(t) /\ call[t].fn \in UTMPresetMethods
                      /\ resp[t].Body = DataEnvelope(PresetJSON(P))) =>
            IsNil(ret[t].err) /\ ret[t].result = Ptr(P)

\* C5 (as claimed): the 2xx body {"foo":1} makes the single-preset methods
\* return an error and no preset.
C5_UnknownObjectFails ==
    \A t \in Threads :
        (Succeeded(t) /\ call[t].fn \in UTMPresetMethods /\ resp[t].Body = FooBody) =>
            ~IsNil(ret[t].err) /\ ret[t].result = Nil

\* The request struct thread t's call serializes, if it does.
HasStructBody(t) == HasSent(t) /\ ~call[t].body.nil /\ call[t].body.t.k = "struct"

\* C6 (as claimed): a field of a request struct the caller left unset (at
\* its zero value) is absent as a key from the serialized body. (The callers
\* of the model always set the fields a request cannot do without: the id,
\* the short_url, the name, the domain.)
C6_UnsetFieldsOmitted ==
    \A t \in Threads :
        HasStructBody(t) =>
            \A i \in 1..Len(call[t].body.t.f) :
                LET f == call[t].body.t.f[i]
                IN  call[t].body.v[f.name] = Zero(f.t) => f.key \notin BodyKeys(sent[t].Body)

\* The parameters key[0], key[1], ... for the values vs, in index order.
IndexedParams(key, vs) ==
    [i \in 1..Len(vs) |-> [k |-> key \o <<"[">> \o Itoa(i - 1) \o <<"]">>, v |-> Itoa(vs[i])]]

\* C7 (as claimed): the sent query string holds, for each integer-array
\* filter, exactly the parameters key[i]=vi, in index order.
C7_IndexedFiltersInOrder ==
    \A t \in Threads :
        (HasSent(t) /\ call[t].fn = "ListShortLinksDetailed") =>
            LET ps == QueryParams(sent[t].URL)
                o == call[t].args
            IN  /\ WithPrefix(ps, <<"t","a","g","_","i","d","s","[">>) = IndexedParams(<<"t","a","g","_","i","d","s">>, Elems(o.TagIDs))
                /\ WithPrefix(ps, <<"p","i","x","e","l","_","i","d","s","[">>) = IndexedParams(<<"p","i","x","e","l","_","i","d","s">>, Elems(o.PixelIDs))
                /\ WithPrefix(ps, <<"d","o","m","a","i","n","s","[">>) = IndexedParams(<<"d","o","m","a","i","n","s">>, Elems(o.Domains))

FilterMethods == {"ListShortLinksDetailed", "ListShortLinks", "GetStatsWithRange",
                  "GetOneLinkStats", "GetQRCode", "ListOneLinks"}

\* short_url is the one parameter these methods always send.
RequiredParams == {<<"s","h","o","r","t","_","u","r","l">>}

\* C8 (as claimed): no request of a method with optional filters carries an
\* optional filter with an empty-string or zero value.
C8_NoEmptyFilterSent ==
    \A t \in Threads :
        (HasSent(t) /\ call[t].fn \in FilterMethods) =>
            LET ps == QueryParams(sent[t].URL)
            IN  \A i \in 1..Len(ps) :
                    ps[i].k \notin RequiredParams => ps[i].v \notin {<<>>, <<"0">>}

\* C9 (as claimed): a call that has returned made exactly one exchange.
C9_ExactlyOneExchange ==
    \A t \in Threads : pc[t] = "done" => exchanges[t] = 1

\* The errors that stop doRequestRaw before Client.Do.
NotSentErrors == {"json.Marshal", "http.NewRequest"}

\* C9 (amended): a call makes at most one exchange: exactly one whatever the
\* response comes to, and none when the body cannot be serialized or the
\* request cannot be built.
C9_OneExchangeUnlessNotSent ==
    \A t \in Threads :
        /\ pc[t] = "sent" => exchanges[t] = 1
        /\ pc[t] = "done" =>
              exchanges[t] = IF ret[t].err.kind \in NotSentErrors THEN 0 ELSE 1

\* C9 witness: ListUTMPresets decoded the wrapped form after the bare decode
\* failed, on one exchange.
C9_Witness ==
    \E t \in Threads :
        /\ pc[t] = "done" /\ call[t].fn = "ListUTMPresets"
        /\ ret[t].unmarshals = 2 /\ IsNil(ret[t].err)
        /\ exchanges[t] = 1

\* The body of thread t's call is one json.Marshal fails on.
Unserializable(t) ==
    /\ call[t] # NoCall
    /\ ~call[t].body.nil
    /\ ~Marshal(call[t].body.v, call[t].body.t).ok

\* C10: when the body cannot be serialized the call returns the error of
\* json.Marshal and nothing is sent.
C10_MarshalErrorBeforeSend ==
    \A t \in Threads :
        Unserializable(t) =>
            /\ pc[t] = "done"
            /\ ret[t].err = MarshalError
            /\ exchanges[t] = 0
            /\ sent[t] = NoRequest
            /\ resp[t] = NoOutcome

\* C10 witness: BulkShortenLinks returned the error for links it cannot encode.
C10_Witness ==
    \E t \in Threads :
        /\ pc[t] = "done" /\ call[t].fn = "BulkShortenLinks"
        /\ Unserializable(t)
        /\ ret[t].err = MarshalError /\ ret[t].result = <<>>
        /\ exchanges[t] = 0

\* ------------------------------------------------------------------------
\* The claims on deletes, concurrency, outcomes and the UTM preset list
\* ------------------------------------------------------------------------

DeleteByBody == {"DeleteShortLink", "DeleteOneLinkStats"}
DeleteByPath == {"DeletePixel", "DeleteTag", "DeleteUTMPreset"}

\* The fixed path of a delete that names its target in the body.
FixedPath(fn) ==
    IF fn = "DeleteShortLink" THEN <<"/","a","p","i","/","v","1","/","l","i","n","k">> ELSE <<"/","a","p","i","/","v","1","/","o","n","e","l","i","n","k","/","s","t","a","t">>

\* The resource of a delete that names its target in the path.
ResourcePath(fn) ==
    CASE fn = "DeletePixel" -> <<"/","a","p","i","/","v","1","/","l","i","n","k","/","p","i","x","e","l">>
      [] fn = "DeleteTag" -> <<"/","a","p","i","/","v","1","/","l","i","n","k","/","t","a","g">>
      [] fn = "DeleteUTMPreset" -> <<"/","a","p","i","/","v","1","/","l","i","n","k","/","u","t","m","-","p","r","e","s","e","t">>

\* The JSON document {"short_url": u}, as a server reads it.
ShortURLDocument(u) == [ok |-> TRUE, v |-> JObj(<<[k |-> <<"s","h","o","r","t","_","u","r","l">>, v |-> JStr(u)]>>)]

\* The base every request URL starts with.
BaseOf(c) == TrimRight(c.BaseURL, {"/"})

\* C11: DeleteShortLink(u) and DeleteOneLinkStats(u) send DELETE to their
\* fixed path with the JSON body {"short_url": u}; DeletePixel(id),
\* DeleteTag(id) and DeleteUTMPreset(id) send DELETE to <resource>/{id} with
\* an empty body.
C11_DeleteAsymmetry ==
    \A t \in Threads :
        (HasSent(t) /\ call[t].fn \in DeleteByBody \cup DeleteByPath) =>
            /\ sent[t].Method = MethodDelete
            /\ IF call[t].fn \in DeleteByBody
               THEN /\ sent[t].URL = BaseOf(client) \o FixedPath(call[t].fn)
                    /\ ParseJSON(sent[t].Body) = ShortURLDocument(call[t].args)
               ELSE /\ sent[t].URL = BaseOf(client) \o ResourcePath(call[t].fn)
                                        \o <<"/">> \o Itoa(call[t].args)
                    /\ sent[t].Body = <<>>

\* C11 witness: DeleteOneLinkStats sent its short URL in the body of a DELETE
\* to the fixed path.
C11_Witness ==
    \E t \in Threads :
        /\ HasSent(t) /\ call[t].fn = "DeleteOneLinkStats"
        /\ sent[t].Method = MethodDelete
        /\ sent[t].URL = <<"h","t","t","p","s",":","/","/","a","p","i",".","t",".","l","y","/","a","p","i","/","v","1","/","o","n","e","l","i","n","k","/","s","t","a","t">>
        /\ sent[t].Body = <<"{","\"","s","h","o","r","t","_","u","r","l","\"",":","\"","h","t","t","p","s",":","/","/","t",".","l","y","/","a","\"","}">>

\* What doRequestRaw comes to before Client.Do for the call thread t is in,
\* computed from the call and the client alone.
AloneSend(t) ==
    doRequestRawSend(client, call[t].method, call[t].path, call[t].query, call[t].body)

\* What the call of thread t returns when it runs alone and Client.Do comes
\* to resp[t] (or is never reached).
AloneReturn(t) ==
    IF resp[t] = NoOutcome THEN Fail(call[t], AloneSend(t).err)
    ELSE Finish(call[t], doRequestRawReceive(resp[t]))

\* The request and the outcome of every call in progress are those of the
\* call run alone.
SameAsAlone ==
    \A t \in Threads :
        pc[t] # "idle" =>
            /\ sent[t] = AloneSend(t).req
            /\ exchanges[t] = IF AloneSend(t).do THEN 1 ELSE 0
            /\ pc[t] = "sent" => IsNil(AloneSend(t).err) /\ resp[t] = NoOutcome
            /\ pc[t] = "done" => ret[t] = AloneReturn(t)

\* The client changes only between calls, by the caller's own assignment.
NoCallWritesClient ==
    client' # client => \A t \in Threads : pc[t] = "idle" /\ pc'[t] = "idle"

\* C12: under every interleaving of the calls of two goroutines on one
\* Client, no call writes the client (APIKey, BaseURL, Client), and the
\* request and the outcome of each call are those of the same call run alone
\* with the same arguments and the same response.
C12_ConcurrentCallsSafe == []SameAsAlone /\ [][NoCallWritesClient]_vars

\* C12 witness: ListUTMPresets of one goroutine has returned its list while
\* UpdateShortLink of the other is still inside Client.Do.
C12_Witness ==
    /\ pc["t1"] = "sent" /\ call["t1"].fn = "UpdateShortLink"
    /\ pc["t2"] = "done" /\ call["t2"].fn = "ListUTMPresets"
    /\ IsNil(ret["t2"].err) /\ ret["t2"].unmarshals = 1
    /\ exchanges["t1"] = 1 /\ exchanges["t2"] = 1
    /\ SameAsAlone

\* The methods that return a pointer to what they decoded.
PointerReturns == {"pointer", "utmPreset"}

\* What a method returns for its result next to an error: "" from the
\* methods that return a string, nil from the others.
NoResult(returns) == IF returns = "string" THEN <<>> ELSE Nil

\* What json.Unmarshal left in the target of thread t's call.
Decoded(t) == doRequest(doRequestRawReceive(resp[t]), call[t].result)

\* C13: a call that has returned holds either a nil error, and then a
\* non-nil pointer where the method returns a pointer, or a non-nil error and
\* no result (nil pointer, nil slice, empty string), whatever json.Unmarshal
\* had decoded before it failed.
C13_NoPartialSuccess ==
    \A t \in Threads :
        pc[t] = "done" =>
            IF IsNil(ret[t].err)
            THEN call[t].returns \in PointerReturns => ~ret[t].result.nil
            ELSE ret[t].result = NoResult(call[t].returns)

\* C13 witness: json.Unmarshal had set the id of the Pixel before it failed
\* on the name, and GetPixel returned nil and the error.
C13_Witness ==
    \E t \in Threads :
        /\ pc[t] = "done" /\ call[t].fn = "GetPixel"
        /\ resp[t].kind = "response" /\ resp[t].StatusCode = 200 /\ resp[t].Body = HalfBody
        /\ Decoded(t).v = [Zero(Pixel) EXCEPT !.ID = 1]
        /\ ret[t].err = UnmarshalError /\ ret[t].result = Nil

\* Thread t's call of ListUTMPresets got the 2xx body b.
ListedFrom(t, b) ==
    Succeeded(t) /\ call[t].fn = "ListUTMPresets" /\ resp[t].Body = b

\* C14: for every list L of presets ListUTMPresets returns L, from the bare
\* array L after one json.Unmarshal, and from the object {"data": L} after
\* two, the bare decode having failed.
C14_PresetListEitherEnvelope ==
    \A t \in Threads : \A L \in PresetLists :
        /\ ListedFrom(t, PresetListJSON(L)) =>
              /\ IsNil(ret[t].err)
              /\ ret[t].result = Slice(L)
              /\ ret[t].unmarshals = 1
        /\ ListedFrom(t, DataEnvelope(PresetListJSON(L))) =>
              /\ IsNil(ret[t].err)
              /\ ret[t].result = Slice(L)
              /\ ret[t].unmarshals = 2
              /\ Unmarshal(resp[t].Body, TSlice(UTMPreset), Nil).err

\* C14 witness: ListUTMPresets returned the two presets of a wrapped body.
C14_Witness ==
    \E t \in Threads :
        /\ ListedFrom(t, DataEnvelope(PresetListJSON(<<Preset1, Preset2>>)))
        /\ ret[t].result = Slice(<<Preset1, Preset2>>)
        /\ ret[t].unmarshals = 2

\* The methods that decode a UTM preset or a list of them themselves.
UTMPresetDecoders == UTMPresetMethods \cup {"ListUTMPresets"}

\* Thread t's call got a 2xx response whose body is empty or white space.
BlankSuccess(t) == Succeeded(t) /\ OnlyWhiteSpace(resp[t].Body)

\* C15: on a 2xx response with an empty or white-space body CreateUTMPreset,
\* GetUTMPreset, UpdateUTMPreset and ListUTMPresets return nil and the error
\* of their decoding, both decodes having failed, where the typed methods
\* built on doRequest return a nil error.
C15_PresetMethodsRejectBlankBody ==
    \A t \in Threads :
        BlankSuccess(t) =>
            /\ call[t].fn \in UTMPresetDecoders =>
                  /\ ret[t].err.kind = "fmt.Errorf"
                  /\ ret[t].result = Nil
                  /\ ret[t].unmarshals = 2
            /\ call[t].returns \in {"pointer", "slice"} => IsNil(ret[t].err)

\* C15 witness: GetUTMPreset returned its decode error for a body of white
\* space.
C15_Witness ==
    \E t \in Threads :
        /\ BlankSuccess(t) /\ call[t].fn = "GetUTMPreset"
        /\ resp[t].Body = <<" ","\n","\t","\r">>
        /\ ret[t].err = Errorf("unable to decode UTM preset response")
        /\ ret[t].result = Nil

====
